---- MODULE Spec2Model ----
(***************************************************************************)
(* Model of the document-extraction pipelines of the Protocol Extractor:   *)
(*   src/lib/mistral-ocr.ts         extractTextWithOCR, extractProtocolData*)
(*                                  extractProtocol, cleanJsonResponse,    *)
(*                                  ensureArray                            *)
(*   src/lib/mistral-budget-cta.ts  extractBudgetData, extractBudget,      *)
(*                                  extractCTAData, extractCTA,            *)
(*                                  cleanJsonResponse, ensure*Payments     *)
(*                                                                         *)
(* A JavaScript string is a sequence of one-character strings, so that     *)
(* trimming, fence stripping, the repair regexes and JSON.parse are        *)
(* computed character by character.  A JavaScript value is a tagged        *)
(* record (see "JavaScript values").  Numbers are integers (and NaN).      *)
(***************************************************************************)
EXTENDS Integers, Sequences, FiniteSets, TLC

(***************************************************************************)
(* Characters                                                              *)
(***************************************************************************)
\* the characters that cannot be written as themselves
Ch ==
  [ DQ |-> "\"",
    BS |-> "\\",
    NL |-> "\n",
    CR |-> "\r",
    TAB |-> "\t",
    SQ |-> "'",
    \* the grave accent U+0060 (written by name: the character itself cannot
    \* appear in a string of this language)
    BT |-> "GRAVE" ]

\* classes of characters
Class ==
  [ digits |-> {"0", "1", "2", "3", "4", "5", "6", "7", "8", "9"},
    letters |->
      {"a", "b", "c", "d", "e", "f", "g", "h", "i", "j", "k", "l", "m",
      "n", "o", "p", "q", "r", "s", "t", "u", "v", "w", "x", "y", "z",
      "A", "B", "C", "D", "E", "F", "G", "H", "I", "J", "K", "L", "M",
      "N", "O", "P", "Q", "R", "S", "T", "U", "V", "W", "X", "Y", "Z"},
    \* \s of the regular expressions and the white space of String.prototype.trim
    \* (restricted to the characters of the model's alphabet)
    space |-> {" ", Ch.NL, Ch.CR, Ch.TAB},
    \* white space of the JSON grammar
    jsonSpace |-> {" ", Ch.NL, Ch.CR, Ch.TAB},
    \* control characters U+0000..U+001F of the alphabet: not allowed raw in a
    \* JSON string
    control |-> {Ch.NL, Ch.CR, Ch.TAB, "BACKSPACE", "FORMFEED", "NUL"} ]

\* \w of the regular expressions
WordChars == Class.letters \cup Class.digits \cup {"_"}

DigitVal(c) ==
  CASE c = "0" -> 0 [] c = "1" -> 1 [] c = "2" -> 2 [] c = "3" -> 3
    [] c = "4" -> 4 [] c = "5" -> 5 [] c = "6" -> 6 [] c = "7" -> 7
    [] c = "8" -> 8 [] c = "9" -> 9

DigitChar(d) ==
  CASE d = 0 -> "0" [] d = 1 -> "1" [] d = 2 -> "2" [] d = 3 -> "3"
    [] d = 4 -> "4" [] d = 5 -> "5" [] d = 6 -> "6" [] d = 7 -> "7"
    [] d = 8 -> "8" [] d = 9 -> "9"

(***************************************************************************)
(* String operations                                                       *)
(***************************************************************************)
\* s.startsWith(p, i): the characters of p occur in s from index i (1-based)
StartsAt(s, i, p) ==
  /\ i + Len(p) - 1 <= Len(s)
  /\ \A j \in 1..Len(p) : s[i + j - 1] = p[j]

\* String.prototype.trimStart and trimEnd
TrimLeft(s) ==
  IF \A j \in 1..Len(s) : s[j] \in Class.space THEN <<>>
  ELSE SubSeq(s, CHOOSE j \in 1..Len(s) :
                   s[j] \notin Class.space /\ \A k \in 1..(j - 1) : s[k] \in Class.space,
              Len(s))

TrimRight(s) ==
  IF \A j \in 1..Len(s) : s[j] \in Class.space THEN <<>>
  ELSE SubSeq(s, 1, CHOOSE j \in 1..Len(s) :
                      s[j] \notin Class.space /\ \A k \in (j + 1)..Len(s) : s[k] \in Class.space)

\* String.prototype.trim
Trim(s) == TrimRight(TrimLeft(s))

\* Array.prototype.join on an array of strings
RECURSIVE Join(_, _)
Join(parts, sep) ==
  IF parts = <<>> THEN <<>>
  ELSE IF Len(parts) = 1 THEN parts[1]
  ELSE parts[1] \o sep \o Join(Tail(parts), sep)

(***************************************************************************)
(* JavaScript values: a record with the type t and the payload in a field  *)
(* named after the type                                                    *)
(***************************************************************************)
Undef == [t |-> "undef"]
Null == [t |-> "null"]
NaN == [t |-> "nan"]
Bool(b) == [t |-> "bool", b |-> b]
Num(n) == [t |-> "num", n |-> n]
Str(s) == [t |-> "str", s |-> s]
\* an array: its elements a and the named properties p assigned to it
Arr(s) == [t |-> "arr", a |-> s, p |-> <<>>]
\* an object: a function from property names (strings) to values
Obj(f) == [t |-> "obj", o |-> f]
\* the completion of an expression that threw
Throw(m) == [t |-> "throw", m |-> m]

IsThrow(x) == x.t = "throw"
IsNullish(x) == x.t \in {"undef", "null"}
IsPrimitive(x) == x.t \in {"bool", "num", "nan", "str"}

\* a truthiness that takes the empty string for a true value: with it
\* x || 'USD' keeps an empty currency (C9 depends on "" being falsy)
TruthyOrEmptyString(x) ==
  CASE x.t \in {"undef", "null", "nan"} -> FALSE
    [] x.t = "bool" -> x.b
    [] x.t = "num" -> x.n # 0
    [] OTHER -> TRUE

\* ToBoolean
Truthy(x) ==
  CASE x.t \in {"undef", "null", "nan"} -> FALSE
    [] x.t = "bool" -> x.b
    [] x.t = "num" -> x.n # 0
    [] x.t = "str" -> x.s # <<>>
    [] OTHER -> TRUE

\* a || b
OrElse(a, b) == IF IsThrow(a) THEN a ELSE IF Truthy(a) THEN a ELSE b

\* x.k for a property name k that is none of the built-in properties
\* (length, prototype methods): reading a property of null or undefined
\* throws a TypeError
Get(x, k) ==
  CASE IsThrow(x) -> x
    [] IsNullish(x) -> Throw("TypeError")
    [] x.t = "obj" -> IF k \in DOMAIN x.o THEN x.o[k] ELSE Undef
    [] x.t = "arr" -> IF k \in DOMAIN x.p THEN x.p[k] ELSE Undef
    [] OTHER -> Undef

\* x?.k
OptGet(x, k) == IF IsNullish(x) THEN Undef ELSE Get(x, k)

\* Array.isArray
IsArray(x) == x.t = "arr"

(***************************************************************************)
(* String literals of the source                                           *)
(***************************************************************************)
Lit ==
  [ USD |-> <<"U", "S", "D">>,
    UnknownProcedure |->
      <<"U", "n", "k", "n", "o", "w", "n", " ", "P", "r", "o", "c", "e", "d",
        "u", "r", "e">>,
    UnknownVisit |->
      <<"U", "n", "k", "n", "o", "w", "n", " ", "V", "i", "s", "i", "t">>,
    UnknownMilestone |->
      <<"U", "n", "k", "n", "o", "w", "n", " ", "M", "i", "l", "e", "s", "t",
        "o", "n", "e">>,
    UnknownSponsor |->
      <<"U", "n", "k", "n", "o", "w", "n", " ", "S", "p", "o", "n", "s", "o",
        "r">>,
    PageBreak |->
      <<Ch.NL, Ch.NL, "-", "-", "-", " ", "P", "A", "G", "E", " ", "B", "R", "E",
        "A", "K", " ", "-", "-", "-", Ch.NL, Ch.NL>>,
    undefined |-> <<"u", "n", "d", "e", "f", "i", "n", "e", "d">>,
    null |-> <<"n", "u", "l", "l">>,
    true |-> <<"t", "r", "u", "e">>,
    false |-> <<"f", "a", "l", "s", "e">>,
    NaN |-> <<"N", "a", "N">>,
    objectObject |->
      <<"[", "o", "b", "j", "e", "c", "t", " ", "O", "b", "j", "e", "c", "t",
        "]">> ]

(***************************************************************************)
(* Scanning: the least index at or after i whose character is (is not) in  *)
(* set C, Len(s) + 1 when there is none                                    *)
(***************************************************************************)
First(s, i, C) ==
  IF \E j \in i..Len(s) : s[j] \in C
    THEN CHOOSE j \in i..Len(s) :
           s[j] \in C /\ \A k \in i..(j - 1) : s[k] \notin C
    ELSE Len(s) + 1

FirstNot(s, i, C) ==
  IF \E j \in i..Len(s) : s[j] \notin C
    THEN CHOOSE j \in i..Len(s) :
           s[j] \notin C /\ \A k \in i..(j - 1) : s[k] \in C
    ELSE Len(s) + 1

(***************************************************************************)
(* JSON.parse                                                              *)
(* The grammar of ECMA-404 over the alphabet of the model: numbers are     *)
(* integers (no fraction, no exponent) and strings have the two-character  *)
(* escapes (no \uXXXX).                                                    *)
(***************************************************************************)
ParseFail == [ok |-> FALSE]
ParseOk(val, next) == [ok |-> TRUE, v |-> val, i |-> next]

\* index of the first character at or after i that is not JSON white space
SkipWs(s, i) == FirstNot(s, i, Class.jsonSpace)

\* the characters of a string literal from index i (after the opening quote),
\* acc the characters read so far
RECURSIVE ParseChars(_, _, _)
ParseChars(s, i, acc) ==
  LET j == First(s, i, {Ch.DQ, Ch.BS} \cup Class.control)
      run == acc \o SubSeq(s, i, j - 1)
      \* the character an escape \e stands for
      Unescape(e) ==
        CASE e = "n" -> Ch.NL [] e = "r" -> Ch.CR [] e = "t" -> Ch.TAB
          [] e = "b" -> "BACKSPACE" [] e = "f" -> "FORMFEED"
          [] OTHER -> e
  IN IF j > Len(s) THEN ParseFail
     ELSE IF s[j] = Ch.DQ THEN ParseOk(run, j + 1)
     ELSE IF s[j] = Ch.BS THEN
       IF j + 1 <= Len(s) /\ s[j + 1] \in {Ch.DQ, Ch.BS, "/", "b", "f", "n", "r", "t"}
         THEN ParseChars(s, j + 2, Append(run, Unescape(s[j + 1])))
         ELSE ParseFail
     ELSE ParseFail

\* the run of digits that starts at index i: its value and the index after it
ParseDigits(s, i) ==
  LET j == FirstNot(s, i, Class.digits)
      \* the value of the digits s[i..e]
      RECURSIVE DigitsValue(_)
      DigitsValue(e) ==
        IF e < i THEN 0 ELSE 10 * DigitsValue(e - 1) + DigitVal(s[e])
  IN ParseOk(DigitsValue(j - 1), j)

\* number of the JSON grammar, restricted to integers: an optional minus
\* sign and an int
ParseNumber(s, i) ==
  LET \* int of the JSON grammar: 0, or a non-zero digit followed by digits
      ParseNat(j) ==
        IF j > Len(s) \/ s[j] \notin Class.digits THEN ParseFail
        ELSE IF s[j] = "0" THEN ParseOk(0, j + 1)
        ELSE ParseDigits(s, j)
  IN IF s[i] = "-"
       THEN LET r == ParseNat(i + 1)
            IN IF r.ok THEN ParseOk(Num(0 - r.v), r.i) ELSE ParseFail
       ELSE LET r == ParseNat(i)
            IN IF r.ok THEN ParseOk(Num(r.v), r.i) ELSE ParseFail

\* f with property k set to val (a later duplicate key wins)
SetKey(f, k, val) ==
  [x \in DOMAIN f \cup {k} |-> IF x = k THEN val ELSE f[x]]

RECURSIVE ParseValue(_, _)
RECURSIVE ParseElems(_, _, _)
RECURSIVE ParseMembers(_, _, _)

\* the value that starts at index i (white space already skipped)
ParseValue(s, i) ==
  IF i > Len(s) THEN ParseFail
  ELSE IF s[i] = "{" THEN
    LET j == SkipWs(s, i + 1)
    IN IF j <= Len(s) /\ s[j] = "}" THEN ParseOk(Obj(<<>>), j + 1)
       ELSE ParseMembers(s, j, <<>>)
  ELSE IF s[i] = "[" THEN
    LET j == SkipWs(s, i + 1)
    IN IF j <= Len(s) /\ s[j] = "]" THEN ParseOk(Arr(<<>>), j + 1)
       ELSE ParseElems(s, j, <<>>)
  ELSE IF s[i] = Ch.DQ THEN
    LET r == ParseChars(s, i + 1, <<>>)
    IN IF r.ok THEN ParseOk(Str(r.v), r.i) ELSE ParseFail
  ELSE IF s[i] = "-" \/ s[i] \in Class.digits THEN ParseNumber(s, i)
  ELSE IF StartsAt(s, i, Lit.true) THEN ParseOk(Bool(TRUE), i + 4)
  ELSE IF StartsAt(s, i, Lit.false) THEN ParseOk(Bool(FALSE), i + 5)
  ELSE IF StartsAt(s, i, Lit.null) THEN ParseOk(Null, i + 4)
  ELSE ParseFail

\* the elements of an array from index i (at the start of an element)
ParseElems(s, i, acc) ==
  LET r == ParseValue(s, i)
  IN IF ~r.ok THEN ParseFail
     ELSE LET j == SkipWs(s, r.i)
          IN IF j > Len(s) THEN ParseFail
             ELSE IF s[j] = "]" THEN ParseOk(Arr(Append(acc, r.v)), j + 1)
             ELSE IF s[j] = "," THEN ParseElems(s, SkipWs(s, j + 1), Append(acc, r.v))
             ELSE ParseFail

\* the members of an object from index i (at the start of a key)
ParseMembers(s, i, acc) ==
  IF i > Len(s) \/ s[i] # Ch.DQ THEN ParseFail
  ELSE
    LET k == ParseChars(s, i + 1, <<>>)
    IN IF ~k.ok THEN ParseFail
       ELSE LET c == SkipWs(s, k.i)
            IN IF c > Len(s) \/ s[c] # ":" THEN ParseFail
               ELSE LET r == ParseValue(s, SkipWs(s, c + 1))
                    IN IF ~r.ok THEN ParseFail
                       ELSE LET j == SkipWs(s, r.i)
                                m == SetKey(acc, k.v, r.v)
                            IN IF j > Len(s) THEN ParseFail
                               ELSE IF s[j] = "}" THEN ParseOk(Obj(m), j + 1)
                               ELSE IF s[j] = "," THEN ParseMembers(s, SkipWs(s, j + 1), m)
                               ELSE ParseFail

\* JSON.parse(s): the value, or the SyntaxError it throws
JsonParse(s) ==
  LET r == ParseValue(s, SkipWs(s, 1))
  IN IF r.ok /\ SkipWs(s, r.i) = Len(s) + 1 THEN r.v ELSE Throw("SyntaxError")

(***************************************************************************)
(* Regular-expression replacements of cleanJsonResponse and of the repair  *)
(* pass.  A global replace takes the matches left to right, each search    *)
(* starting after the previous match.                                      *)
(***************************************************************************)
\* the code fences of markdown
Fences ==
  [ plain |-> <<Ch.BT, Ch.BT, Ch.BT>>,
    json |-> <<Ch.BT, Ch.BT, Ch.BT, "j", "s", "o", "n">> ]

\* the index of the first match: the least element of hits, none if empty
FirstMatch(hits, none) ==
  IF hits = {} THEN none ELSE CHOOSE j \in hits : \A k \in hits : j <= k

\* s.replace(/<pat>\n?/g, ''): every occurrence of pat, with the newline
\* that follows it if there is one, is removed
RECURSIVE RemoveWithNewline(_, _, _)
RemoveWithNewline(s, i, pat) ==
  LET At(str, j) == StartsAt(str, j, pat)
      m == FirstMatch({hit \in i..Len(s) : At(s, hit)}, Len(s) + 1)
      e == m + Len(pat)
  IN IF m > Len(s) THEN SubSeq(s, i, Len(s))
     ELSE SubSeq(s, i, m - 1) \o
          RemoveWithNewline(s, IF e <= Len(s) /\ s[e] = Ch.NL THEN e + 1 ELSE e, pat)

\* s.match(/\{[\s\S]*\}/): from the first "{" to the last "}" after it
\* (greedy), or s itself when there is no match
MatchBraces(s) ==
  LET a == First(s, 1, {"{"})
      closers == {j \in 1..Len(s) : s[j] = "}"}
      b == IF closers = {} THEN 0
           ELSE CHOOSE j \in closers : \A k \in closers : k <= j
  IN IF a <= Len(s) /\ b > a THEN SubSeq(s, a, b) ELSE s

\* cleanJsonResponse of mistral-ocr.ts
CleanJsonResponseProtocol(response) ==
  LET c1 == RemoveWithNewline(response, 1, Fences.json)
      c2 == RemoveWithNewline(c1, 1, Fences.plain)
  IN Trim(MatchBraces(c2))

\* .replace(/\\([^"\\\/bfnrtu])/g, '$1'): a backslash before a character that
\* starts no JSON escape is removed
RECURSIVE FixBackslashes(_, _)
FixBackslashes(s, i) ==
  LET BadEscapeAt(j) ==
        /\ s[j] = Ch.BS
        /\ j + 1 <= Len(s)
        /\ s[j + 1] \notin {Ch.DQ, Ch.BS, "/", "b", "f", "n", "r", "t", "u"}
      m == FirstMatch({hit \in i..Len(s) : BadEscapeAt(hit)}, Len(s) + 1)
  IN IF m > Len(s) THEN SubSeq(s, i, Len(s))
     ELSE SubSeq(s, i, m - 1) \o <<s[m + 1]>> \o FixBackslashes(s, m + 2)

\* .replace(/[\x00-\x1F\x7F]/g, ...): a control character other than
\* \n, \r, \t becomes a space
FixControlChars(s) ==
  [i \in 1..Len(s) |->
     IF s[i] \in Class.control \ {Ch.NL, Ch.CR, Ch.TAB} THEN " " ELSE s[i]]

\* cleanJsonResponse of mistral-budget-cta.ts.  Its last replace,
\* .replace(/(?<!\\)\\n(?=[^"]*"[,}\]])/g, '\\n'), puts the two characters
\* backslash n where it matched the two characters backslash n: it leaves
\* every text unchanged
CleanJsonResponseBudget(response) ==
  LET c1 == RemoveWithNewline(response, 1, Fences.json)
      c2 == RemoveWithNewline(c1, 1, Fences.plain)
      c3 == MatchBraces(c2)
      c4 == FixBackslashes(c3, 1)
      c5 == FixControlChars(c4)
  IN Trim(c5)

\* .replace(/,\s*}/g, '}') and .replace(/,\s*]/g, ']') for closer "}", "]"
RECURSIVE RemoveTrailingCommas(_, _, _)
RemoveTrailingCommas(s, i, closer) ==
  LET At(str, j) ==
        /\ str[j] = ","
        /\ FirstNot(str, j + 1, Class.space) <= Len(str)
        /\ str[FirstNot(str, j + 1, Class.space)] = closer
      m == FirstMatch({hit \in i..Len(s) : At(s, hit)}, Len(s) + 1)
  IN IF m > Len(s) THEN SubSeq(s, i, Len(s))
     ELSE SubSeq(s, i, m - 1) \o <<closer>> \o
          RemoveTrailingCommas(s, FirstNot(s, m + 1, Class.space) + 1, closer)

\* .replace(/'/g, '"')
SingleToDoubleQuotes(s) == [i \in 1..Len(s) |-> IF s[i] = Ch.SQ THEN Ch.DQ ELSE s[i]]

\* .replace(/(\w+):/g, '"$1":'): every run of word characters that a colon
\* follows is put between double quotes
RECURSIVE QuoteKeys(_, _)
QuoteKeys(s, i) ==
  LET \* the regular expression matches at j, where a search starts: a run
      \* of word characters from j up to a colon
      KeyAt(j) ==
        /\ s[j] \in WordChars
        /\ FirstNot(s, j, WordChars) <= Len(s)
        /\ s[FirstNot(s, j, WordChars)] = ":"
      m == FirstMatch({hit \in i..Len(s) : KeyAt(hit)}, Len(s) + 1)
      c == FirstNot(s, m, WordChars)
  IN IF m > Len(s) THEN SubSeq(s, i, Len(s))
     ELSE SubSeq(s, i, m - 1) \o <<Ch.DQ>> \o SubSeq(s, m, c - 1) \o <<Ch.DQ, ":">> \o
          QuoteKeys(s, c + 1)

\* .replace(/""+/g, '"'): a run of two or more double quotes becomes one
RECURSIVE CollapseQuotes(_, _)
CollapseQuotes(s, i) ==
  LET QuotesAt(j) == s[j] = Ch.DQ /\ j + 1 <= Len(s) /\ s[j + 1] = Ch.DQ
      m == FirstMatch({hit \in i..Len(s) : QuotesAt(hit)}, Len(s) + 1)
  IN IF m > Len(s) THEN SubSeq(s, i, Len(s))
     ELSE SubSeq(s, i, m) \o CollapseQuotes(s, FirstNot(s, m, {Ch.DQ}))

\* the repair pass of extractBudgetData and extractCTAData
Repair(cleaned) ==
  LET r1 == RemoveTrailingCommas(cleaned, 1, "}")
      r2 == RemoveTrailingCommas(r1, 1, "]")
      r3 == SingleToDoubleQuotes(r2)
      r4 == QuoteKeys(r3, 1)
  IN CollapseQuotes(r4, 1)

\* try { JSON.parse(cleaned) } catch { JSON.parse(repaired) }
ParseWithRepair(cleaned) ==
  LET first == JsonParse(cleaned)
  IN IF IsThrow(first) THEN JsonParse(Repair(cleaned)) ELSE first

(***************************************************************************)
(* Property names of the three records, as strings                        *)
(***************************************************************************)
K ==
  [ name |-> <<"n", "a", "m", "e">>,
    phase |-> <<"p", "h", "a", "s", "e">>,
    indication |-> <<"i", "n", "d", "i", "c", "a", "t", "i", "o", "n">>,
    inclusion_criteria |->
      <<"i", "n", "c", "l", "u", "s", "i", "o", "n", "_", "c", "r", "i", "t",
        "e", "r", "i", "a">>,
    exclusion_criteria |->
      <<"e", "x", "c", "l", "u", "s", "i", "o", "n", "_", "c", "r", "i", "t",
        "e", "r", "i", "a">>,
    visit_schedule |->
      <<"v", "i", "s", "i", "t", "_", "s", "c", "h", "e", "d", "u", "l",
        "e">>,
    target_enrollment |->
      <<"t", "a", "r", "g", "e", "t", "_", "e", "n", "r", "o", "l", "l", "m",
        "e", "n", "t">>,
    total_budget |->
      <<"t", "o", "t", "a", "l", "_", "b", "u", "d", "g", "e", "t">>,
    currency |-> <<"c", "u", "r", "r", "e", "n", "c", "y">>,
    budget_type |-> <<"b", "u", "d", "g", "e", "t", "_", "t", "y", "p", "e">>,
    per_patient_total |->
      <<"p", "e", "r", "_", "p", "a", "t", "i", "e", "n", "t", "_", "t", "o",
        "t", "a", "l">>,
    screen_failure_payment |->
      <<"s", "c", "r", "e", "e", "n", "_", "f", "a", "i", "l", "u", "r", "e",
        "_", "p", "a", "y", "m", "e", "n", "t">>,
    early_termination_payment |->
      <<"e", "a", "r", "l", "y", "_", "t", "e", "r", "m", "i", "n", "a", "t",
        "i", "o", "n", "_", "p", "a", "y", "m", "e", "n", "t">>,
    procedure_payments |->
      <<"p", "r", "o", "c", "e", "d", "u", "r", "e", "_", "p", "a", "y", "m",
        "e", "n", "t", "s">>,
    visit_payments |->
      <<"v", "i", "s", "i", "t", "_", "p", "a", "y", "m", "e", "n", "t",
        "s">>,
    milestone_payments |->
      <<"m", "i", "l", "e", "s", "t", "o", "n", "e", "_", "p", "a", "y", "m",
        "e", "n", "t", "s">>,
    startup_costs |->
      <<"s", "t", "a", "r", "t", "u", "p", "_", "c", "o", "s", "t", "s">>,
    annual_maintenance |->
      <<"a", "n", "n", "u", "a", "l", "_", "m", "a", "i", "n", "t", "e", "n",
        "a", "n", "c", "e">>,
    closeout_costs |->
      <<"c", "l", "o", "s", "e", "o", "u", "t", "_", "c", "o", "s", "t",
        "s">>,
    payment_terms |->
      <<"p", "a", "y", "m", "e", "n", "t", "_", "t", "e", "r", "m", "s">>,
    pass_through_costs |->
      <<"p", "a", "s", "s", "_", "t", "h", "r", "o", "u", "g", "h", "_", "c",
        "o", "s", "t", "s">>,
    important_notes |->
      <<"i", "m", "p", "o", "r", "t", "a", "n", "t", "_", "n", "o", "t", "e",
        "s">>,
    procedure_name |->
      <<"p", "r", "o", "c", "e", "d", "u", "r", "e", "_", "n", "a", "m",
        "e">>,
    payment_amount |->
      <<"p", "a", "y", "m", "e", "n", "t", "_", "a", "m", "o", "u", "n",
        "t">>,
    per_patient |-> <<"p", "e", "r", "_", "p", "a", "t", "i", "e", "n", "t">>,
    visit_associated |->
      <<"v", "i", "s", "i", "t", "_", "a", "s", "s", "o", "c", "i", "a", "t",
        "e", "d">>,
    notes |-> <<"n", "o", "t", "e", "s">>,
    visit_name |-> <<"v", "i", "s", "i", "t", "_", "n", "a", "m", "e">>,
    visit_number |->
      <<"v", "i", "s", "i", "t", "_", "n", "u", "m", "b", "e", "r">>,
    total_payment |->
      <<"t", "o", "t", "a", "l", "_", "p", "a", "y", "m", "e", "n", "t">>,
    procedures_included |->
      <<"p", "r", "o", "c", "e", "d", "u", "r", "e", "s", "_", "i", "n", "c",
        "l", "u", "d", "e", "d">>,
    milestone_name |->
      <<"m", "i", "l", "e", "s", "t", "o", "n", "e", "_", "n", "a", "m",
        "e">>,
    trigger_condition |->
      <<"t", "r", "i", "g", "g", "e", "r", "_", "c", "o", "n", "d", "i", "t",
        "i", "o", "n">>,
    payment_frequency |->
      <<"p", "a", "y", "m", "e", "n", "t", "_", "f", "r", "e", "q", "u", "e",
        "n", "c", "y">>,
    document_title |->
      <<"d", "o", "c", "u", "m", "e", "n", "t", "_", "t", "i", "t", "l",
        "e">>,
    agreement_number |->
      <<"a", "g", "r", "e", "e", "m", "e", "n", "t", "_", "n", "u", "m", "b",
        "e", "r">>,
    sponsor_name |->
      <<"s", "p", "o", "n", "s", "o", "r", "_", "n", "a", "m", "e">>,
    site_name |-> <<"s", "i", "t", "e", "_", "n", "a", "m", "e">>,
    payment_info |->
      <<"p", "a", "y", "m", "e", "n", "t", "_", "i", "n", "f", "o">>,
    payment_method |->
      <<"p", "a", "y", "m", "e", "n", "t", "_", "m", "e", "t", "h", "o",
        "d">>,
    payment_currency |->
      <<"p", "a", "y", "m", "e", "n", "t", "_", "c", "u", "r", "r", "e", "n",
        "c", "y">>,
    billing_address |->
      <<"b", "i", "l", "l", "i", "n", "g", "_", "a", "d", "d", "r", "e", "s",
        "s">>,
    payment_contact |->
      <<"p", "a", "y", "m", "e", "n", "t", "_", "c", "o", "n", "t", "a", "c",
        "t">>,
    tax_requirements |->
      <<"t", "a", "x", "_", "r", "e", "q", "u", "i", "r", "e", "m", "e", "n",
        "t", "s">>,
    references_budget_amendment |->
      <<"r", "e", "f", "e", "r", "e", "n", "c", "e", "s", "_", "b", "u", "d",
        "g", "e", "t", "_", "a", "m", "e", "n", "d", "m", "e", "n", "t">>,
    timeline |-> <<"t", "i", "m", "e", "l", "i", "n", "e">>,
    agreement_effective_date |->
      <<"a", "g", "r", "e", "e", "m", "e", "n", "t", "_", "e", "f", "f", "e",
        "c", "t", "i", "v", "e", "_", "d", "a", "t", "e">>,
    study_start_date |->
      <<"s", "t", "u", "d", "y", "_", "s", "t", "a", "r", "t", "_", "d", "a",
        "t", "e">>,
    estimated_end_date |->
      <<"e", "s", "t", "i", "m", "a", "t", "e", "d", "_", "e", "n", "d", "_",
        "d", "a", "t", "e">>,
    invoice_submission_deadline |->
      <<"i", "n", "v", "o", "i", "c", "e", "_", "s", "u", "b", "m", "i", "s",
        "s", "i", "o", "n", "_", "d", "e", "a", "d", "l", "i", "n", "e">>,
    invoice_requirements |->
      <<"i", "n", "v", "o", "i", "c", "e", "_", "r", "e", "q", "u", "i", "r",
        "e", "m", "e", "n", "t", "s">>,
    invoice_submission_method |->
      <<"i", "n", "v", "o", "i", "c", "e", "_", "s", "u", "b", "m", "i", "s",
        "s", "i", "o", "n", "_", "m", "e", "t", "h", "o", "d">>,
    invoice_submission_address |->
      <<"i", "n", "v", "o", "i", "c", "e", "_", "s", "u", "b", "m", "i", "s",
        "s", "i", "o", "n", "_", "a", "d", "d", "r", "e", "s", "s">>,
    payment_hold_conditions |->
      <<"p", "a", "y", "m", "e", "n", "t", "_", "h", "o", "l", "d", "_", "c",
        "o", "n", "d", "i", "t", "i", "o", "n", "s">>,
    audit_requirements |->
      <<"a", "u", "d", "i", "t", "_", "r", "e", "q", "u", "i", "r", "e", "m",
        "e", "n", "t", "s">>,
    sponsor_contact_name |->
      <<"s", "p", "o", "n", "s", "o", "r", "_", "c", "o", "n", "t", "a", "c",
        "t", "_", "n", "a", "m", "e">>,
    sponsor_contact_email |->
      <<"s", "p", "o", "n", "s", "o", "r", "_", "c", "o", "n", "t", "a", "c",
        "t", "_", "e", "m", "a", "i", "l">>,
    financial_contact_name |->
      <<"f", "i", "n", "a", "n", "c", "i", "a", "l", "_", "c", "o", "n", "t",
        "a", "c", "t", "_", "n", "a", "m", "e">>,
    financial_contact_email |->
      <<"f", "i", "n", "a", "n", "c", "i", "a", "l", "_", "c", "o", "n", "t",
        "a", "c", "t", "_", "e", "m", "a", "i", "l">> ]

(***************************************************************************)
(* Conversions: String(x), parseInt, parseFloat                            *)
(***************************************************************************)
\* the decimal digits of a natural number
RECURSIVE NatToString(_)
NatToString(n) ==
  IF n < 10 THEN <<DigitChar(n)>>
  ELSE NatToString(n \div 10) \o <<DigitChar(n % 10)>>

IntToString(n) == IF n < 0 THEN <<"-">> \o NatToString(0 - n) ELSE NatToString(n)

RECURSIVE StringOf(_)
\* Array.prototype.join(",") of Array.prototype.toString: null and undefined
\* elements give the empty string
RECURSIVE JoinElems(_)
JoinElems(elems) ==
  IF elems = <<>> THEN <<>>
  ELSE LET h == IF IsNullish(elems[1]) THEN <<>> ELSE StringOf(elems[1])
       IN IF Len(elems) = 1 THEN h ELSE h \o <<",">> \o JoinElems(Tail(elems))

\* String(x)
StringOf(x) ==
  CASE x.t = "undef" -> Lit.undefined
    [] x.t = "null" -> Lit.null
    [] x.t = "nan" -> Lit.NaN
    [] x.t = "bool" -> IF x.b THEN Lit.true ELSE Lit.false
    [] x.t = "num" -> IntToString(x.n)
    [] x.t = "str" -> x.s
    [] x.t = "arr" -> JoinElems(x.a)
    [] x.t = "obj" -> Lit.objectObject

\* the number a string starts with: leading white space, an optional sign,
\* decimal digits; NaN when no digit is found.  (The alphabet has no ".",
\* exponent, hexadecimal prefix or "Infinity", on which parseInt and
\* parseFloat would differ.)
NumberPrefix(str) ==
  LET s == TrimLeft(str)
      signed == s # <<>> /\ s[1] \in {"-", "+"}
      first == IF signed THEN 2 ELSE 1
      r == ParseDigits(s, first)
  IN IF r.i = first THEN NaN
     ELSE IF signed /\ s[1] = "-" THEN Num(0 - r.v) ELSE Num(r.v)

\* parseFloat(x) and parseInt(x): the argument is converted to a string first
ParseFloat(x) == IF IsThrow(x) THEN x ELSE NumberPrefix(StringOf(x))
ParseInt(x) == IF IsThrow(x) THEN x ELSE NumberPrefix(StringOf(x))

(***************************************************************************)
(* Building and updating objects                                           *)
(***************************************************************************)
\* the first thrown completion among the values of sequence vals, in
\* evaluation order
RECURSIVE FirstThrow(_)
FirstThrow(vals) ==
  IF vals = <<>> THEN Undef
  ELSE IF IsThrow(vals[1]) THEN vals[1]
  ELSE FirstThrow(Tail(vals))

AnyThrow(vals) == \E i \in 1..Len(vals) : IsThrow(vals[i])

\* the object literal { k1: v1, ..., kn: vn } for pairs <<ki, vi>>: its
\* evaluation throws what the first throwing vi throws
ObjectLiteral(pairs) ==
  LET vals == [i \in 1..Len(pairs) |-> pairs[i][2]]
      names == {pairs[i][1] : i \in 1..Len(pairs)}
  IN IF AnyThrow(vals) THEN FirstThrow(vals)
     ELSE Obj([k \in names |->
                 pairs[CHOOSE i \in 1..Len(pairs) : pairs[i][1] = k][2]])

\* x.k = val in strict-mode code (an ES module): a TypeError on null,
\* undefined and on a primitive
SetProp(x, k, val) ==
  CASE IsThrow(x) -> x
    [] IsThrow(val) -> val
    [] x.t = "obj" -> Obj(SetKey(x.o, k, val))
    [] x.t = "arr" -> [x EXCEPT !.p = SetKey(x.p, k, val)]
    [] OTHER -> Throw("TypeError")

(***************************************************************************)
(* ensureArray (mistral-ocr.ts)                                            *)
(***************************************************************************)
\* s.split('\n')
RECURSIVE SplitLines(_, _)
SplitLines(s, cur) ==
  IF s = <<>> THEN <<cur>>
  ELSE IF Head(s) = Ch.NL THEN <<cur>> \o SplitLines(Tail(s), <<>>)
  ELSE SplitLines(Tail(s), Append(cur, Head(s)))

NonEmptyStr(x) == x.s # <<>>

\* a list normaliser that only tests Array.isArray: an array is kept as it
\* is, everything else becomes the empty array (C22 depends on the
\* stringifying, trimming and splitting)
EnsureArrayUnsplit(value) == IF IsArray(value) THEN value ELSE Arr(<<>>)

\* ensureArray(value)
EnsureArray(value) ==
  IF IsThrow(value) THEN value
  ELSE IF IsArray(value) THEN
    Arr(SelectSeq([i \in 1..Len(value.a) |-> Str(Trim(StringOf(value.a[i])))],
                  NonEmptyStr))
  ELSE IF value.t = "str" /\ Trim(value.s) # <<>> THEN
    IF \E i \in 1..Len(value.s) : value.s[i] = Ch.NL
      THEN LET parts == SplitLines(value.s, <<>>)
           IN Arr(SelectSeq([i \in 1..Len(parts) |-> Str(Trim(parts[i]))],
                            NonEmptyStr))
      ELSE Arr(<<Str(Trim(value.s))>>)
  ELSE Arr(<<>>)

(***************************************************************************)
(* Normalisation of the Protocol record (extractProtocolData, lines        *)
(* 150-156): the parsed value itself is updated in place                   *)
(***************************************************************************)
NormalizeProtocol(data) ==
  LET d1 == SetProp(data, K.inclusion_criteria,
                    EnsureArray(Get(data, K.inclusion_criteria)))
      d2 == SetProp(d1, K.exclusion_criteria,
                    EnsureArray(Get(d1, K.exclusion_criteria)))
      d3 == SetProp(d2, K.visit_schedule,
                    EnsureArray(Get(d2, K.visit_schedule)))
  IN SetProp(d3, K.target_enrollment,
             OrElse(ParseInt(Get(d3, K.target_enrollment)), Num(0)))


(***************************************************************************)
(* ensureProcedurePayments, ensureVisitPayments, ensureMilestonePayments   *)
(* (mistral-budget-cta.ts)                                                 *)
(***************************************************************************)
\* a filter callback that keeps an amount of 0: p.payment_amount >= 0
\* (C6 depends on the strict comparison)
KeepProcedureNonNegative(p) ==
  Truthy(p.o[K.procedure_name]) /\ p.o[K.payment_amount].n >= 0

\* the filter callback: p.procedure_name && p.payment_amount > 0
KeepProcedure(p) ==
  Truthy(p.o[K.procedure_name]) /\ p.o[K.payment_amount].n > 0

EnsureProcedurePayments(value) ==
  IF IsThrow(value) THEN value
  ELSE IF ~IsArray(value) THEN Arr(<<>>)
  ELSE LET \* the object the map callback of ensureProcedurePayments builds for item
           ProcedureItem(item) ==
             ObjectLiteral(<<
               <<K.procedure_name,
                   OrElse(Get(item, K.procedure_name), Str(Lit.UnknownProcedure))>>,
               <<K.payment_amount,
                   OrElse(ParseFloat(Get(item, K.payment_amount)), Num(0))>>,
               <<K.currency, OrElse(Get(item, K.currency), Str(Lit.USD))>>,
               <<K.per_patient,
                   IF IsThrow(Get(item, K.per_patient)) THEN Get(item, K.per_patient)
                   ELSE Bool(Get(item, K.per_patient) # Bool(FALSE))>>,
               <<K.visit_associated, OrElse(Get(item, K.visit_associated), Undef)>>,
               <<K.notes, OrElse(Get(item, K.notes), Undef)>> >>)
           mapped == [i \in 1..Len(value.a) |-> ProcedureItem(value.a[i])]
       IN IF AnyThrow(mapped) THEN FirstThrow(mapped)
          ELSE Arr(SelectSeq(mapped, KeepProcedure))

\* the filter callback: v.visit_name && v.total_payment > 0
KeepVisit(p) == Truthy(p.o[K.visit_name]) /\ p.o[K.total_payment].n > 0

EnsureVisitPayments(value) ==
  IF IsThrow(value) THEN value
  ELSE IF ~IsArray(value) THEN Arr(<<>>)
  ELSE LET \* the object the map callback of ensureVisitPayments builds for item
           VisitItem(item) ==
             ObjectLiteral(<<
               <<K.visit_name, OrElse(Get(item, K.visit_name), Str(Lit.UnknownVisit))>>,
               <<K.visit_number, OrElse(ParseInt(Get(item, K.visit_number)), Undef)>>,
               <<K.total_payment,
                   OrElse(ParseFloat(Get(item, K.total_payment)), Num(0))>>,
               <<K.currency, OrElse(Get(item, K.currency), Str(Lit.USD))>>,
               <<K.procedures_included,
                   IF IsThrow(Get(item, K.procedures_included))
                     THEN Get(item, K.procedures_included)
                   ELSE IF IsArray(Get(item, K.procedures_included))
                     THEN Get(item, K.procedures_included)
                   ELSE Arr(<<>>)>> >>)
           mapped == [i \in 1..Len(value.a) |-> VisitItem(value.a[i])]
       IN IF AnyThrow(mapped) THEN FirstThrow(mapped)
          ELSE Arr(SelectSeq(mapped, KeepVisit))

\* the filter callback: m.milestone_name && m.payment_amount > 0
KeepMilestone(p) ==
  Truthy(p.o[K.milestone_name]) /\ p.o[K.payment_amount].n > 0

EnsureMilestonePayments(value) ==
  IF IsThrow(value) THEN value
  ELSE IF ~IsArray(value) THEN Arr(<<>>)
  ELSE LET \* the object the map callback of ensureMilestonePayments builds for item
           MilestoneItem(item) ==
             ObjectLiteral(<<
               <<K.milestone_name,
                   OrElse(Get(item, K.milestone_name), Str(Lit.UnknownMilestone))>>,
               <<K.payment_amount,
                   OrElse(ParseFloat(Get(item, K.payment_amount)), Num(0))>>,
               <<K.currency, OrElse(Get(item, K.currency), Str(Lit.USD))>>,
               <<K.trigger_condition,
                   OrElse(Get(item, K.trigger_condition), Str(<<>>))>> >>)
           mapped == [i \in 1..Len(value.a) |-> MilestoneItem(value.a[i])]
       IN IF AnyThrow(mapped) THEN FirstThrow(mapped)
          ELSE Arr(SelectSeq(mapped, KeepMilestone))

\* the property copied as it is, without the Array.isArray test (C8
\* depends on the test)
ArrayUnchecked(x) == x

\* Array.isArray(x) ? x : []
ArrayOrEmpty(x) ==
  IF IsThrow(x) THEN x ELSE IF IsArray(x) THEN x ELSE Arr(<<>>)

(***************************************************************************)
(* Normalisation of the Budget record (extractBudgetData, lines 288-308)   *)
(***************************************************************************)
NormalizeBudget(rawData) ==
  ObjectLiteral(<<
    <<K.total_budget, OrElse(Get(rawData, K.total_budget), Undef)>>,
    <<K.currency, OrElse(Get(rawData, K.currency), Str(Lit.USD))>>,
    <<K.budget_type, OrElse(Get(rawData, K.budget_type), Undef)>>,
    <<K.per_patient_total, OrElse(Get(rawData, K.per_patient_total), Undef)>>,
    <<K.screen_failure_payment,
        OrElse(Get(rawData, K.screen_failure_payment), Undef)>>,
    <<K.early_termination_payment,
        OrElse(Get(rawData, K.early_termination_payment), Undef)>>,
    <<K.procedure_payments,
        EnsureProcedurePayments(Get(rawData, K.procedure_payments))>>,
    <<K.visit_payments, EnsureVisitPayments(Get(rawData, K.visit_payments))>>,
    <<K.milestone_payments,
        EnsureMilestonePayments(Get(rawData, K.milestone_payments))>>,
    <<K.startup_costs, OrElse(Get(rawData, K.startup_costs), Undef)>>,
    <<K.annual_maintenance, OrElse(Get(rawData, K.annual_maintenance), Undef)>>,
    <<K.closeout_costs, OrElse(Get(rawData, K.closeout_costs), Undef)>>,
    <<K.payment_terms, OrElse(Get(rawData, K.payment_terms), Obj(<<>>))>>,
    <<K.pass_through_costs, ArrayOrEmpty(Get(rawData, K.pass_through_costs))>>,
    <<K.important_notes, ArrayOrEmpty(Get(rawData, K.important_notes))>> >>)

(***************************************************************************)
(* Normalisation of the CTA record (extractCTAData, lines 458-494)         *)
(***************************************************************************)
\* rawData.a?.b || dflt
OptField(rawData, a, b, dflt) ==
  IF IsThrow(Get(rawData, a)) THEN Get(rawData, a)
  ELSE OrElse(OptGet(Get(rawData, a), b), dflt)

NormalizeCTA(rawData) ==
  ObjectLiteral(<<
    <<K.document_title, OrElse(Get(rawData, K.document_title), Undef)>>,
    <<K.agreement_number, OrElse(Get(rawData, K.agreement_number), Undef)>>,
    <<K.sponsor_name,
        OrElse(Get(rawData, K.sponsor_name), Str(Lit.UnknownSponsor))>>,
    <<K.site_name, OrElse(Get(rawData, K.site_name), Undef)>>,
    <<K.payment_info, ObjectLiteral(<<
        <<K.payment_method,
            OptField(rawData, K.payment_info, K.payment_method, Undef)>>,
        <<K.payment_currency,
            OptField(rawData, K.payment_info, K.payment_currency, Str(Lit.USD))>>,
        <<K.billing_address,
            OptField(rawData, K.payment_info, K.billing_address, Undef)>>,
        <<K.payment_contact,
            OptField(rawData, K.payment_info, K.payment_contact, Undef)>>,
        <<K.tax_requirements,
            OptField(rawData, K.payment_info, K.tax_requirements, Undef)>> >>)>>,
    <<K.references_budget_amendment,
        IF IsThrow(Get(rawData, K.references_budget_amendment))
          THEN Get(rawData, K.references_budget_amendment)
        ELSE IF Get(rawData, K.references_budget_amendment).t = "str"
          THEN Get(rawData, K.references_budget_amendment)
        ELSE Undef>>,
    <<K.timeline, ObjectLiteral(<<
        <<K.agreement_effective_date,
            OptField(rawData, K.timeline, K.agreement_effective_date, Undef)>>,
        <<K.study_start_date,
            OptField(rawData, K.timeline, K.study_start_date, Undef)>>,
        <<K.estimated_end_date,
            OptField(rawData, K.timeline, K.estimated_end_date, Undef)>>,
        <<K.invoice_submission_deadline,
            OptField(rawData, K.timeline, K.invoice_submission_deadline,
                     Undef)>> >>)>>,
    <<K.invoice_requirements,
        ArrayOrEmpty(Get(rawData, K.invoice_requirements))>>,
    <<K.invoice_submission_method,
        OrElse(Get(rawData, K.invoice_submission_method), Undef)>>,
    <<K.invoice_submission_address,
        OrElse(Get(rawData, K.invoice_submission_address), Undef)>>,
    <<K.payment_hold_conditions,
        ArrayOrEmpty(Get(rawData, K.payment_hold_conditions))>>,
    <<K.audit_requirements, OrElse(Get(rawData, K.audit_requirements), Undef)>>,
    <<K.sponsor_contact_name,
        OrElse(Get(rawData, K.sponsor_contact_name), Undef)>>,
    <<K.sponsor_contact_email,
        OrElse(Get(rawData, K.sponsor_contact_email), Undef)>>,
    <<K.financial_contact_name,
        OrElse(Get(rawData, K.financial_contact_name), Undef)>>,
    <<K.financial_contact_email,
        OrElse(Get(rawData, K.financial_contact_email), Undef)>>,
    <<K.important_notes, ArrayOrEmpty(Get(rawData, K.important_notes))>> >>)

(***************************************************************************)
(* JSON.stringify, used to write the texts a chat completion may return    *)
(***************************************************************************)
\* JSON.stringify(x): a property whose value is undefined is left out, NaN
\* is written null, the named properties of an array are left out
RECURSIVE Stringify(_)
Stringify(x) ==
  LET EscapeChar(c) ==
        CASE c = Ch.DQ -> <<Ch.BS, Ch.DQ>> [] c = Ch.BS -> <<Ch.BS, Ch.BS>>
          [] c = Ch.NL -> <<Ch.BS, "n">> [] c = Ch.CR -> <<Ch.BS, "r">>
          [] c = Ch.TAB -> <<Ch.BS, "t">>
          [] c = "BACKSPACE" -> <<Ch.BS, "b">> [] c = "FORMFEED" -> <<Ch.BS, "f">>
          [] OTHER -> <<c>>
      RECURSIVE EscapeChars(_)
      EscapeChars(t) ==
        IF t = <<>> THEN <<>> ELSE EscapeChar(Head(t)) \o EscapeChars(Tail(t))
      \* the string literal of s
      Quote(s) == <<Ch.DQ>> \o EscapeChars(s) \o <<Ch.DQ>>
      \* the elements of an array, comma separated; undefined is written null
      RECURSIVE StringifyElems(_)
      StringifyElems(elems) ==
        IF elems = <<>> THEN <<>>
        ELSE LET h == IF elems[1].t = "undef" THEN Lit.null
                      ELSE Stringify(elems[1])
             IN IF Len(elems) = 1 THEN h
                ELSE h \o <<",">> \o StringifyElems(Tail(elems))
      \* the members of object f with the names in keys, comma separated
      RECURSIVE StringifyMembers(_, _)
      StringifyMembers(f, keys) ==
        IF keys = {} THEN <<>>
        ELSE LET k == CHOOSE key \in keys : TRUE
                 m == Quote(k) \o <<":">> \o Stringify(f[k])
             IN IF keys = {k} THEN m
                ELSE m \o <<",">> \o StringifyMembers(f, keys \ {k})
  IN CASE x.t = "null" -> Lit.null
       [] x.t = "nan" -> Lit.null
       [] x.t = "bool" -> IF x.b THEN Lit.true ELSE Lit.false
       [] x.t = "num" -> IntToString(x.n)
       [] x.t = "str" -> Quote(x.s)
       [] x.t = "arr" -> <<"[">> \o StringifyElems(x.a) \o <<"]">>
       [] x.t = "obj" ->
            <<"{">> \o
            StringifyMembers(x.o, {k \in DOMAIN x.o : x.o[k].t # "undef"}) \o
            <<"}">>

(***************************************************************************)
(* Bounds of the model                                                     *)
(***************************************************************************)
\* items in a payment collection or list of a generated response
MaxItems == 2
\* pages of an OCR response
MaxPages == 2
\* studies that are created
MaxStudies == 1

(***************************************************************************)
(* Inputs: what the external services may answer                           *)
(***************************************************************************)
\* all sequences over set S of length at most n
SeqsUpTo(S, n) == UNION {[1..m -> S] : m \in 0..n}

\* the object with the given <<name, value>> members, a member whose value
\* is Undef being absent (JSON has no undefined)
MakeObj(pairs) ==
  LET present == {i \in 1..Len(pairs) : pairs[i][2].t # "undef"}
  IN Obj([k \in {pairs[i][1] : i \in present} |->
            pairs[CHOOSE i \in present : pairs[i][1] = k][2]])

T ==
  [ a |-> <<"a">>,
    EUR |-> <<"E", "U", "R">>,
    abc |-> <<"a", "b", "c">>,
    seven |-> <<"7">>,
    twelveAb |-> <<"1", "2", "a", "b">>,
    lines |-> <<" ", "a", Ch.NL, "b", " ", Ch.NL>>,
    notJson |->
      <<"n", "o", "t", " ", "j", "s", "o", "n", " ", "a", "t", " ", "a", "l", "l">>,
    here |-> <<"H", "e", "r", "e", ":", " ">> ]

\* message of an error thrown by the Mistral client ("" when it has none)
ErrorMessages == {"", "Service unavailable"}

\* response.pages of an OCR response: undefined, or up to MaxPages pages,
\* the markdown of a page being one of PageTexts
OcrPages ==
  LET PageTexts == {<<" ">>, <<"a", "b">>}
  IN {Undef} \cup {Arr(p) : p \in SeqsUpTo({Str(t) : t \in PageTexts}, MaxPages)}

\* the documentText a caller passes to a data stage it calls directly
DocTexts == {<<"d", "o", "c">>}

\* a payment item with name n, amount a and currency c under the property
\* names nk and ak
PaymentItem(nk, ak, n, a, c) ==
  MakeObj(<< <<nk, n>>, <<ak, a>>, <<K.currency, c>> >>)

\* items of a payment collection: a billable item, then items that differ
\* from it in the name, in the amount, in the currency, and values that
\* are no objects
ItemPool(nk, ak) ==
  {PaymentItem(nk, ak, n, Num(5), Undef) :
     n \in {Undef, Null, Str(<<>>), Str(T.a), Num(3)}}
  \cup {PaymentItem(nk, ak, Str(T.a), a, Undef) :
     a \in {Undef, Null, Num(0), Num(-2), Str(T.seven), Str(T.abc), Str(T.twelveAb),
            Arr(<<Num(9)>>), Bool(TRUE)}}
  \cup {PaymentItem(nk, ak, Str(T.a), Num(5), c) :
     c \in {Null, Str(<<>>), Str(T.EUR)}}
  \cup {Null, Num(3), Str(T.a), Arr(<<>>), Obj(<<>>)}

\* the items that the longer collections are made of
CorePool(nk, ak) ==
  {PaymentItem(nk, ak, Str(T.a), Num(5), Undef),
   PaymentItem(nk, ak, Undef, Num(5), Undef),
   PaymentItem(nk, ak, Str(T.a), Num(0), Undef),
   PaymentItem(nk, ak, Str(<<>>), Str(T.abc), Str(<<>>)),
   Null}

\* values of a payment collection property
CollectionVals(nk, ak) ==
  {Null, Str(T.a), Obj(<<>>)}
  \cup {Arr(<<i>>) : i \in ItemPool(nk, ak)}
  \cup {Arr(s) : s \in SeqsUpTo(CorePool(nk, ak), MaxItems)}

\* the values that a property of a response may hold, by the kind of the
\* property
Vals ==
    \* visit items that differ in visit_number and procedures_included
  [ visitExtras |->
      {MakeObj(<< <<K.visit_name, Str(T.a)>>, <<K.total_payment, Num(5)>>,
               <<K.visit_number, n>>, <<K.procedures_included, p>> >>) :
      n \in {Undef, Num(2), Str(T.abc)},
      p \in {Undef, Null, Str(T.a), Arr(<<>>), Arr(<<Str(T.a), Null>>)}},
    \* values of a property that should hold a string
    strings |->
      {Null, Str(<<>>), Str(T.a), Num(5), Num(0), Bool(FALSE), Obj(<<>>)},
    \* values of a property that should hold a number
    numbers |->
      {Null, Num(0), Num(12), Num(-3), Str(T.seven), Str(T.twelveAb), Str(T.abc),
      Arr(<<Num(7)>>), Bool(TRUE)},
    \* values of a property that should hold a list of strings
    lists |->
      {Null, Num(5), Str(<<" ">>), Str(T.a), Str(T.lines), Obj(<<>>)}
      \cup {Arr(s) : s \in SeqsUpTo({Str(<<" ", "a", " ">>), Str(<<>>), Null, Num(1)},
                                   MaxItems)},
    \* values of a property that should hold a currency code
    currencies |-> {Null, Str(<<>>), Str(T.EUR), Num(0), Num(5)},
    \* top-level values that are no object
    nonObjects |->
      {Null, Num(0), Num(5), Str(T.a), Bool(TRUE), Arr(<<>>), Arr(<<Num(1)>>)} ]

\* the objects with one property k whose value is in vals
OneKey(k, vals) == {MakeObj(<< <<k, v>> >>) : v \in vals}

\* the values that the response of each data stage may encode
Raw ==
    \* values a Protocol response may encode
  [ extractProtocolData |->
      Vals.nonObjects \cup {Obj(<<>>)}
      \cup OneKey(K.name, Vals.strings) \cup OneKey(K.phase, Vals.strings)
      \cup OneKey(K.indication, Vals.strings)
      \cup OneKey(K.inclusion_criteria, Vals.lists)
      \cup OneKey(K.exclusion_criteria, Vals.lists)
      \cup OneKey(K.visit_schedule, Vals.lists)
      \cup OneKey(K.target_enrollment, Vals.numbers)
      \cup {MakeObj(<< <<K.name, n>>, <<K.phase, Str(<<"2">>)>>,
                       <<K.indication, Null>>,
                       <<K.inclusion_criteria, Arr(<<Str(T.a)>>)>>,
                       <<K.target_enrollment, Num(100)>> >>) : n \in {Str(T.a), Null}},
    \* values a Budget response may encode
    extractBudgetData |->
      Vals.nonObjects \cup {Obj(<<>>)}
      \cup OneKey(K.currency, Vals.currencies)
      \cup OneKey(K.budget_type, Vals.strings)
      \cup OneKey(K.total_budget, Vals.numbers)
      \cup OneKey(K.per_patient_total, Vals.numbers)
      \cup OneKey(K.startup_costs, Vals.numbers)
      \cup OneKey(K.payment_terms,
                  {Null, Str(T.a), Obj(<<>>),
                   MakeObj(<< <<K.payment_frequency, Null>> >>),
                   MakeObj(<< <<K.payment_frequency, Str(T.a)>> >>)})
      \cup OneKey(K.pass_through_costs, Vals.lists)
      \cup OneKey(K.important_notes, Vals.lists)
      \cup OneKey(K.procedure_payments, CollectionVals(K.procedure_name, K.payment_amount))
      \cup OneKey(K.visit_payments,
                  CollectionVals(K.visit_name, K.total_payment)
                  \cup {Arr(<<i>>) : i \in Vals.visitExtras})
      \cup OneKey(K.milestone_payments, CollectionVals(K.milestone_name, K.payment_amount))
      \cup {MakeObj(<< <<K.currency, c>>,
                       <<K.procedure_payments,
                           Arr(<<PaymentItem(K.procedure_name, K.payment_amount,
                                             Str(T.a), Num(0), Undef),
                                 PaymentItem(K.procedure_name, K.payment_amount,
                                             Str(T.a), Num(5), c)>>)>>,
                       <<K.milestone_payments,
                           Arr(<<PaymentItem(K.milestone_name, K.payment_amount,
                                             Undef, Num(7), Undef)>>)>> >>) :
              c \in {Undef, Str(T.EUR)}},
    \* values a CTA response may encode
    extractCTAData |->
      Vals.nonObjects \cup {Obj(<<>>)}
      \cup OneKey(K.sponsor_name, Vals.strings)
      \cup OneKey(K.document_title, Vals.strings)
      \cup OneKey(K.references_budget_amendment, Vals.strings)
      \cup OneKey(K.audit_requirements, Vals.strings)
      \cup OneKey(K.payment_info,
                  {Null, Num(5), Str(T.a), Obj(<<>>)}
                  \cup OneKey(K.payment_currency, Vals.currencies)
                  \cup OneKey(K.payment_method, Vals.strings))
      \cup OneKey(K.timeline,
                  {Null, Num(5), Obj(<<>>),
                   MakeObj(<< <<K.study_start_date, Null>> >>),
                   MakeObj(<< <<K.study_start_date, Str(T.a)>> >>)})
      \cup OneKey(K.invoice_requirements, Vals.lists)
      \cup OneKey(K.payment_hold_conditions, Vals.lists)
      \cup OneKey(K.important_notes, Vals.lists) ]

\* a response text as the model may dress it: in a markdown fence, after a
\* sentence, with a trailing comma, with single quotes, and with the quotes
\* of the first key of an object left out
Dress(form, t) ==
  CASE form = "Fenced" -> Fences.json \o <<Ch.NL>> \o t \o <<Ch.NL>> \o Fences.plain
    [] form = "AfterProse" -> T.here \o t
    [] form = "TrailingComma" ->
         IF Len(t) > 2 /\ t[Len(t)] = "}"
           THEN SubSeq(t, 1, Len(t) - 1) \o <<",", "}">> ELSE t
    [] form = "SingleQuoted" ->
         [i \in 1..Len(t) |-> IF t[i] = Ch.DQ THEN Ch.SQ ELSE t[i]]
    [] form = "UnquotedKey" ->
         IF Len(t) > 2 /\ t[2] = Ch.DQ
           THEN LET e == First(t, 3, {Ch.DQ})
                IN <<t[1]>> \o SubSeq(t, 3, e - 1) \o SubSeq(t, e + 1, Len(t))
           ELSE t

\* the raw values whose texts are also given in the dressed forms
Dressed(raw) == {v \in raw : v.t = "obj" /\ Cardinality(DOMAIN v.o) <= 1
                              /\ \A k \in DOMAIN v.o : v.o[k].t # "obj"}

\* the texts a chat completion may return for the values in raw; Garbage are
\* texts that are no JSON, repaired or not, and Escaped are texts with a
\* backslash before a character that needs no escape
Texts(raw) ==
  LET Garbage == {<<>>, <<" ">>, T.notJson, <<"{">>, <<"{", "a", "}">>,
                  <<"{", Ch.DQ, "a", Ch.DQ, ":", "}">>}
      Escaped ==
        {<<"{", Ch.DQ, "b", "u", "d", "g", "e", "t", "_", "t", "y", "p", "e", Ch.DQ, ":", Ch.DQ, Ch.BT, Ch.BT, Ch.BS, Ch.BT, Ch.DQ, "}">>,
         <<"{", Ch.DQ, "s", "i", "t", "e", "_", "n", "a", "m", "e", Ch.DQ, ":", Ch.DQ, "a", Ch.BS, "q", "b", Ch.DQ, "}">>}
      Forms == {"Fenced", "AfterProse", "TrailingComma", "SingleQuoted",
                "UnquotedKey"}
  IN {Stringify(v) : v \in raw}
     \cup {Dress(form, Stringify(v)) : form \in Forms, v \in Dressed(raw)}
     \cup Garbage \cup Escaped

\* response.choices?.[0]?.message?.content: a string, or no string
\* (undefined, null, an array of content chunks)
Contents(raw) == {Undef, Null, Arr(<<>>)} \cup {Str(t) : t \in Texts(raw)}

(***************************************************************************)
(* State of one invocation of an exported function                         *)
(***************************************************************************)
VARIABLES
  apiKey,        \* process.env.MISTRAL_API_KEY is set
  entry,         \* the exported function the caller invoked
  pc,            \* where the invocation stands
  calls,         \* requests sent to the Mistral service so far, per operation
  text,          \* extractTextWithOCR: the local text (line 71)
  ocrResult,     \* what extractTextWithOCR returned
  documentText,  \* the argument of the data stage
  resultText,    \* the data stage: the local resultText (lines 146, 269)
  rawData,       \* the data stage: the value JSON.parse returned
  outcome,       \* what the data stage or the pipeline returned
  request,       \* the HTTP request an API route is handling
  response,      \* the HTTP response the route returned
  llmCalls,      \* requests the extract-protocol route sent to Anthropic
  runs,          \* concurrent invocations of extractTextWithOCR: their locals
  files,         \* the files of the Mistral service, in the order of upload
  authUsers,     \* auth.users: the role in the metadata of each signed-up user
  db,            \* the tables users, studies, study_members and invitations
  reply,         \* the last response of a study or team route
  now,           \* new Date(): the day the server's clock shows
  posts,         \* invitation POSTs that passed their checks, before the insert
  page           \* the Budget/CTA upload page: its React state and its fetch

\* the state of one invocation of the extraction library
library == <<apiKey, entry, pc, calls, text, ocrResult, documentText,
             resultText, rawData, outcome>>

\* the state that neither the invocation nor the extraction routes touch
elsewhere == <<runs, files, authUsers, db, reply, now, posts, page>>

\* the state of the API routes and of the rest, which the extraction library
\* leaves alone
outside == <<request, response, llmCalls, elsewhere>>

vars == <<library, outside>>

Pipelines == {"extractProtocol", "extractBudget", "extractCTA"}
DataStages == {"extractProtocolData", "extractBudgetData", "extractCTAData"}
Entries == {"extractTextWithOCR"} \cup DataStages \cup Pipelines

\* the data stage a pipeline calls, a data stage being its own
DataStageOf(e) ==
  CASE e \in {"extractProtocol", "extractProtocolData"} -> "extractProtocolData"
    [] e \in {"extractBudget", "extractBudgetData"} -> "extractBudgetData"
    [] e \in {"extractCTA", "extractCTAData"} -> "extractCTAData"

\* the values of the state before anything happened
Empty ==
  [ calls |->
      [upload |-> 0, signedUrl |-> 0, ocr |-> 0, delete |-> 0, chat |-> 0],
    outcome |-> [method |-> "pending"],
    ocrResult |-> [pending |-> TRUE],
    request |-> [route |-> "none"],
    response |-> [status |-> 0],
    \* the locals of an invocation that has not started: the uploaded file's id,
    \* the file the signed URL points to, the text, the returned result, and
    \* the responses the invocation received and the requests it sent
    run |->
      [pc |-> "ocr_entry", uploadedFile |-> 0, signedUrl |-> 0, text |-> <<>>,
      result |-> [pending |-> TRUE], responses |-> <<>>, requests |-> {}],
    \* no study or team route has answered yet
    reply |-> [route |-> "none", caller |-> 0, status |-> 0, study |-> 0],
    \* the upload page after its first render (useState, lines 24-33): file 0
    \* is null, fetch is the extraction request under way with the file and
    \* the document type its handler closed over, patch is the body of the
    \* last PATCH that Save sent
    page |->
      [documentType |-> "budget", file |-> 0, extracting |-> FALSE,
       extractedBudget |-> Null, extractedCTA |-> Null,
       fetch |-> Null, patch |-> Null],
    \* formData.get('file'): no file, or a file with its media type and size
    file |-> [present |-> FALSE, type |-> "", size |-> 0] ]

Msg ==
  [ NoKey |-> "MISTRAL_API_KEY not configured",
    OcrFailed |-> "OCR processing failed",
    NoText |-> "No text extracted from document",
    NoTextPipeline |-> "No text could be extracted from the document" ]

\* the message of the caught error without a fallback (C3 depends on the
\* fallback: an error may have an empty message)
MessageOrEmpty(m, dflt) == m

\* error.message || dflt
MessageOr(m, dflt) == IF m = "" THEN dflt ELSE m

\* the fallback message of the catch block of a data stage
MsgExtractFailed(stage) ==
  CASE stage = "extractProtocolData" -> "Failed to extract protocol data"
    [] stage = "extractBudgetData" -> "Failed to extract budget data"
    [] stage = "extractCTAData" -> "Failed to extract CTA data"

\* the concurrent invocations of extractTextWithOCR
Invocations == {1, 2}

\* the people who may sign up; user 0 stands for a request without a session
UserIds == {1, 2}

Init ==
  /\ apiKey \in BOOLEAN
  /\ entry = "none"
  /\ pc = "idle"
  /\ calls = Empty.calls
  /\ text = <<>>
  /\ ocrResult = Empty.ocrResult
  /\ documentText = <<>>
  /\ resultText = Undef
  /\ rawData = Undef
  /\ outcome = Empty.outcome
  /\ request = Empty.request
  /\ response = Empty.response
  /\ llmCalls = 0
  /\ runs = [i \in Invocations |-> Empty.run]
  /\ files = <<>>
  /\ authUsers = [u \in UserIds |-> "none"]
  /\ db = [users |-> {}, studies |-> {}, study_members |-> {}, invitations |-> {}]
  /\ reply = Empty.reply
  /\ now = 0
  /\ posts = {}
  /\ page = Empty.page

\* the caller invokes one of the exported functions
Invoke ==
  /\ pc = "idle"
  /\ \E e \in Entries :
       /\ entry' = e
       /\ IF e \in DataStages
            THEN /\ pc' = "data_entry"
                 /\ documentText' \in DocTexts
            ELSE /\ pc' = "ocr_entry"
                 /\ UNCHANGED documentText
  /\ UNCHANGED outside
  /\ UNCHANGED <<apiKey, calls, text, ocrResult, resultText, rawData, outcome>>

\* extractTextWithOCR returns result r: to the caller, or into the pipeline
OcrReturn(r) ==
  /\ ocrResult' = r
  /\ pc' = IF entry = "extractTextWithOCR" THEN "done" ELSE "ocr_returned"

\* the catch block of extractTextWithOCR (lines 85-88) for error message m
OcrCatch(m) == OcrReturn([text |-> <<>>, error |-> MessageOr(m, Msg.OcrFailed)])

\* the OCR stage without its API key check: it goes on to the upload (C2
\* depends on the check)
OcrEntryUnchecked ==
  /\ pc = "ocr_entry"
  /\ pc' = "upload"
  /\ UNCHANGED outside
  /\ UNCHANGED <<apiKey, entry, calls, text, ocrResult, documentText,
                 resultText, rawData, outcome>>

\* extractTextWithOCR, lines 30-35: the API key check
OcrEntry ==
  /\ pc = "ocr_entry"
  /\ IF ~apiKey
       THEN OcrReturn([text |-> <<>>, error |-> Msg.NoKey])
       ELSE pc' = "upload" /\ UNCHANGED ocrResult
  /\ UNCHANGED outside
  /\ UNCHANGED <<apiKey, entry, calls, text, documentText, resultText,
                 rawData, outcome>>

\* lines 45-51: client.files.upload succeeds or throws
Upload ==
  /\ pc = "upload"
  /\ calls' = [calls EXCEPT !.upload = @ + 1]
  /\ \/ pc' = "signedUrl" /\ UNCHANGED ocrResult
     \/ \E m \in ErrorMessages : OcrCatch(m)
  /\ UNCHANGED outside
  /\ UNCHANGED <<apiKey, entry, text, documentText, resultText, rawData,
                 outcome>>

\* a signed-URL request that is tried again after a throw (C15 depends on
\* the single attempt)
GetSignedUrlRetried ==
  /\ pc = "signedUrl"
  /\ calls' = [calls EXCEPT !.signedUrl = @ + 1]
  /\ \/ pc' = "ocrProcess"
     \/ pc' = "signedUrl"
  /\ UNCHANGED outside
  /\ UNCHANGED <<apiKey, entry, text, ocrResult, documentText, resultText,
                 rawData, outcome>>

\* lines 56-58: client.files.getSignedUrl succeeds or throws
GetSignedUrl ==
  /\ pc = "signedUrl"
  /\ calls' = [calls EXCEPT !.signedUrl = @ + 1]
  /\ \/ pc' = "ocrProcess" /\ UNCHANGED ocrResult
     \/ \E m \in ErrorMessages : OcrCatch(m)
  /\ UNCHANGED outside
  /\ UNCHANGED <<apiKey, entry, text, documentText, resultText, rawData,
                 outcome>>

\* response.pages?.map((p) => p.markdown).join(sep) || ''
PagesText(pages) ==
  IF pages.t = "undef" THEN <<>>
  ELSE Join([i \in 1..Len(pages.a) |-> pages.a[i].s], Lit.PageBreak)

\* lines 61-71: client.ocr.process answers with pages, or throws
OcrProcess ==
  /\ pc = "ocrProcess"
  /\ calls' = [calls EXCEPT !.ocr = @ + 1]
  /\ \/ \E pages \in OcrPages :
          /\ text' = PagesText(pages)
          /\ pc' = "delete"
          /\ UNCHANGED ocrResult
     \/ /\ \E m \in ErrorMessages : OcrCatch(m)
        /\ UNCHANGED text
  /\ UNCHANGED outside
  /\ UNCHANGED <<apiKey, entry, documentText, resultText, rawData, outcome>>

\* what extractTextWithOCR returns for the text it extracted (lines 80-84)
OcrTextResult(t) ==
  IF Trim(t) = <<>> THEN [text |-> <<>>, error |-> Msg.NoText] ELSE [text |-> t]

\* lines 74-84: client.files.delete succeeds or throws (the throw is caught
\* and logged), then the text is checked and returned
DeleteFile ==
  /\ pc = "delete"
  /\ calls' = [calls EXCEPT !.delete = @ + 1]
  /\ \E deleted \in BOOLEAN : OcrReturn(OcrTextResult(text))
  /\ UNCHANGED outside
  /\ UNCHANGED <<apiKey, entry, text, documentText, resultText, rawData,
                 outcome>>

\* a pipeline that takes every OCR result for usable (C1 depends on the
\* test of the OCR result)
OcrAlwaysUsable(r) == FALSE

\* ocrResult.error || !ocrResult.text.trim()
OcrUnusable(r) ==
  \/ "error" \in DOMAIN r /\ r.error # ""
  \/ Trim(r.text) = <<>>

\* a pipeline that starts the OCR stage again when its result is unusable
\* (C26 depends on the return of the error)
PipelineResumeRetrying ==
  /\ pc = "ocr_returned"
  /\ IF OcrUnusable(ocrResult)
       THEN /\ pc' = "ocr_entry"
            /\ calls' = Empty.calls
            /\ UNCHANGED documentText
       ELSE /\ documentText' = ocrResult.text
            /\ pc' = "data_entry"
            /\ UNCHANGED calls
  /\ UNCHANGED outside
  /\ UNCHANGED <<apiKey, entry, text, ocrResult, resultText, rawData, outcome>>

\* the pipeline after await extractTextWithOCR (lines 181-192 of
\* mistral-ocr.ts, 333-344 and 519-530 of mistral-budget-cta.ts)
PipelineResume ==
  /\ pc = "ocr_returned"
  /\ IF OcrUnusable(ocrResult)
       THEN /\ outcome' =
                 [method |-> "error",
                  error |-> IF "error" \in DOMAIN ocrResult /\ ocrResult.error # ""
                              THEN ocrResult.error ELSE Msg.NoTextPipeline]
            /\ pc' = "done"
            /\ UNCHANGED documentText
       ELSE /\ documentText' = ocrResult.text
            /\ pc' = "data_entry"
            /\ UNCHANGED outcome
  /\ UNCHANGED outside
  /\ UNCHANGED <<apiKey, entry, calls, text, ocrResult, resultText, rawData>>

\* the data stage, its API key check (lines 95-98, 164-167, 355-358)
DataEntry ==
  /\ pc = "data_entry"
  /\ IF ~apiKey
       THEN /\ outcome' = [method |-> "error", error |-> Msg.NoKey]
            /\ pc' = "done"
       ELSE /\ pc' = "chat"
            /\ UNCHANGED outcome
  /\ UNCHANGED outside
  /\ UNCHANGED <<apiKey, entry, calls, text, ocrResult, documentText,
                 resultText, rawData>>

\* a data stage without its catch block: the error leaves the stage (C25
\* depends on the catch)
CaughtOutcomeRethrown(stage, m, doc) == [thrown |-> m]

\* the outcome of the catch block of a data stage for error message m
CaughtOutcome(stage, m, doc) ==
  [method |-> "error",
   error |-> MessageOr(m, MsgExtractFailed(stage)),
   rawText |-> doc]

\* the outcome of the data stage when normalisation gave data
DataOutcome(data, doc) ==
  IF IsThrow(data)
    THEN [method |-> "error", error |-> data.m, rawText |-> doc]
    ELSE [data |-> data, rawText |-> doc, method |-> "mistral_chat"]

\* the local resultText of a data stage for the content of the response:
\* content || '' in extractProtocolData,
\* typeof content === 'string' ? content : '' in extractBudgetData and
\* extractCTAData
ResultTextOf(stage, content) ==
  IF stage = "extractProtocolData" THEN OrElse(content, Str(<<>>))
  ELSE IF content.t = "str" THEN content ELSE Str(<<>>)

\* the value a data stage parses from its resultText:
\* JSON.parse(cleanJsonResponse(resultText)) in extractProtocolData, where a
\* resultText that is no string has no replace method; the parse with the
\* repair pass in extractBudgetData and extractCTAData
ParseOf(stage, rt) ==
  IF stage = "extractProtocolData"
    THEN IF rt.t # "str" THEN Throw("TypeError")
         ELSE JsonParse(CleanJsonResponseProtocol(rt.s))
    ELSE ParseWithRepair(CleanJsonResponseBudget(rt.s))

\* the record a data stage builds from the parsed value
NormalizeOf(stage, raw) ==
  CASE stage = "extractProtocolData" -> NormalizeProtocol(raw)
    [] stage = "extractBudgetData" -> NormalizeBudget(raw)
    [] stage = "extractCTAData" -> NormalizeCTA(raw)

\* the contents the chat completion of a data stage may carry
ContentsOf == [stage \in DataStages |-> Contents(Raw[stage])]

\* the data stage from client.chat.complete to its return: the call throws,
\* or answers with a content that is cleaned, parsed and normalised
ChatComplete ==
  /\ pc = "chat"
  /\ calls' = [calls EXCEPT !.chat = @ + 1]
  /\ pc' = "done"
  /\ LET stage == DataStageOf(entry)
     IN \/ /\ \E m \in ErrorMessages :
                outcome' = CaughtOutcome(stage, m, documentText)
           /\ UNCHANGED <<resultText, rawData>>
        \/ \E content \in ContentsOf[stage] :
             /\ resultText' = ResultTextOf(stage, content)
             /\ rawData' = ParseOf(stage, resultText')
             /\ outcome' = DataOutcome(NormalizeOf(stage, rawData'), documentText)
  /\ UNCHANGED outside
  /\ UNCHANGED <<apiKey, entry, text, ocrResult, documentText>>

Next ==
  \/ Invoke
  \/ OcrEntry
  \/ Upload
  \/ GetSignedUrl
  \/ OcrProcess
  \/ DeleteFile
  \/ PipelineResume
  \/ DataEntry
  \/ ChatComplete

Spec == Init /\ [][Next]_vars

\* the steps of a started invocation: every await is answered or throws, and
\* the code between two awaits runs to the next await
Progress ==
  \/ OcrEntry
  \/ Upload
  \/ GetSignedUrl
  \/ OcrProcess
  \/ DeleteFile
  \/ PipelineResume
  \/ DataEntry
  \/ ChatComplete

\* the library when every external call eventually returns or fails
LiveSpec == Spec /\ WF_vars(Progress)

(***************************************************************************)
(* Properties                                                              *)
(***************************************************************************)
Done == pc = "done"
\* the chat completion answered and the data stage went on to parse
ChatAnswered == Done /\ calls.chat = 1 /\ resultText # Undef
\* the data stage returned a record
Succeeded == Done /\ entry # "extractTextWithOCR" /\ outcome.method = "mistral_chat"
Stage == DataStageOf(entry)

\* the OCR stage returned a failure, or a text that is empty or white space
OcrFailedOrBlank ==
  /\ ocrResult # Empty.ocrResult
  /\ \/ "error" \in DOMAIN ocrResult
     \/ \A i \in 1..Len(ocrResult.text) : ocrResult.text[i] \in Class.space

\* C1: in each of the three pipelines, when the OCR stage returned a failure
\* or an empty or white-space-only text, the chat completion is never
\* called and the invocation returns an outcome with method "error".
C1_NoChatAfterOcrFailure ==
  (entry \in Pipelines /\ OcrFailedOrBlank) =>
    /\ calls.chat = 0
    /\ pc \in {"ocr_returned", "done"}
    /\ Done => outcome.method = "error"

\* a pipeline returned after the OCR request was answered with blank text
C1_Witness ==
  /\ Done /\ entry \in Pipelines /\ calls.ocr = 1 /\ calls.delete = 1
  /\ OcrFailedOrBlank
  /\ outcome.method = "error"

\* C2: without MISTRAL_API_KEY no request is ever sent (no upload, no signed
\* URL, no OCR, no chat completion, no delete) and every stage and pipeline
\* returns a failure.
C2_NoKeyNoCalls ==
  ~apiKey =>
    /\ calls = Empty.calls
    /\ Done =>
         IF entry = "extractTextWithOCR"
           THEN "error" \in DOMAIN ocrResult /\ ocrResult.error # ""
           ELSE outcome.method = "error"

\* a pipeline returned without an API key
C2_Witness ==
  ~apiKey /\ Done /\ entry \in Pipelines /\ outcome.method = "error"

\* C3: every returned outcome carries exactly one of data and error: method
\* is "error" exactly when a non-empty error is present and data is absent,
\* and every other outcome has data and no error.
C3_DataXorError ==
  (Done /\ entry # "extractTextWithOCR") =>
    /\ outcome.method = "error" <=>
         /\ "error" \in DOMAIN outcome
         /\ outcome.error # ""
         /\ "data" \notin DOMAIN outcome
    /\ outcome.method # "error" =>
         /\ "data" \in DOMAIN outcome
         /\ ~IsNullish(outcome.data)
         /\ "error" \notin DOMAIN outcome

\* a pipeline returned an error outcome from the catch block of its data
\* stage
C3_Witness ==
  /\ Done /\ entry \in Pipelines /\ calls.chat = 1
  /\ outcome.method = "error" /\ resultText = Undef

\* C4: once the chat completion answered and its text parsed as JSON
\* (directly or after repair), the outcome is a success, whatever the
\* parsed value is (a non-object top-level value, null or non-object items
\* of a payment collection included).
C4_ParsedNeverError ==
  (ChatAnswered /\ ~IsThrow(rawData)) => outcome.method # "error"

\* the response text failed to parse, also after the repair pass where
\* there is one
ParseFailed ==
  /\ ChatAnswered /\ resultText.t = "str"
  /\ rawData = Throw("SyntaxError")

\* C5: when the response cannot be parsed, the outcome is an
\* error that carries the raw text of the LLM response.
C5_RawResponseAttached ==
  ParseFailed =>
    /\ outcome.method = "error"
    /\ "rawText" \in DOMAIN outcome
    /\ outcome.rawText = resultText.s

\* the payment collections of the Budget record: the property, the name
\* and amount properties of its items, and the placeholder name
PaymentCollections ==
  << <<K.procedure_payments, K.procedure_name, K.payment_amount,
       Lit.UnknownProcedure>>,
     <<K.visit_payments, K.visit_name, K.total_payment, Lit.UnknownVisit>>,
     <<K.milestone_payments, K.milestone_name, K.payment_amount,
       Lit.UnknownMilestone>> >>

BudgetSucceeded == Succeeded /\ Stage = "extractBudgetData"

\* an amount that is missing, null, zero, negative or no number
BadAmount(a) ==
  \/ a.t \in {"undef", "null", "bool", "nan", "obj"}
  \/ a.t = "num" /\ a.n <= 0
  \/ a.t = "str" /\ \A k \in 1..(FirstNot(a.s, 1, Class.digits) - 1) : a.s[k] = "0"
  \/ a.t = "arr" /\ a.a = <<>>

\* a name that is missing, null or empty (or another falsy value)
NoName(n) ==
  \/ n.t \in {"undef", "null", "nan"}
  \/ n = Str(<<>>) \/ n = Num(0) \/ n = Bool(FALSE)

\* the elements of the parsed collection c, none when it is no array
InputItems(c) ==
  LET in == OptGet(rawData, c[1]) IN IF IsArray(in) THEN in.a ELSE <<>>

OutputItems(c) == outcome.data.o[c[1]].a

\* C6: in a successful Budget outcome every payment item has an amount > 0
\* and a non-empty name, and no more items come out than items with a
\* usable amount went in.
C6_ItemsBillable ==
  BudgetSucceeded =>
    \A n \in 1..3 :
      LET c == PaymentCollections[n]
          out == OutputItems(c)
          in == InputItems(c)
      IN /\ \A i \in 1..Len(out) :
              /\ out[i].o[c[3]].t = "num"
              /\ out[i].o[c[3]].n > 0
              /\ ~NoName(out[i].o[c[2]])
         /\ Len(out) <=
              Cardinality({i \in 1..Len(in) : ~BadAmount(OptGet(in[i], c[3]))})

\* a Budget response with a zero-amount item next to a billable one: the
\* zero-amount item is gone
C6_Witness ==
  /\ BudgetSucceeded
  /\ Len(InputItems(PaymentCollections[1])) = 2
  /\ \E i \in 1..2 :
       OptGet(InputItems(PaymentCollections[1])[i], K.payment_amount) = Num(0)
  /\ Len(OutputItems(PaymentCollections[1])) = 1

\* C7: the output collection has exactly the input items with a
\* name and an amount > 0.
C7_NamelessDropped ==
  BudgetSucceeded =>
    \A n \in 1..3 :
      LET c == PaymentCollections[n]
          in == InputItems(c)
      IN Len(OutputItems(c)) =
           Cardinality({i \in 1..Len(in) :
                          /\ ~NoName(OptGet(in[i], c[2]))
                          /\ ~BadAmount(OptGet(in[i], c[3]))})

\* the input items of collection c with a usable amount, in input order
UsableItems(c) ==
  LET Usable(item) == ~BadAmount(OptGet(item, c[3]))
  IN SelectSeq(InputItems(c), Usable)

\* the declared array properties of the record of each data stage
ArrayFields(stage) ==
  CASE stage = "extractProtocolData" ->
         {K.inclusion_criteria, K.exclusion_criteria, K.visit_schedule}
    [] stage = "extractBudgetData" ->
         {K.procedure_payments, K.visit_payments, K.milestone_payments,
          K.pass_through_costs, K.important_notes}
    [] stage = "extractCTAData" ->
         {K.invoice_requirements, K.payment_hold_conditions, K.important_notes}

\* C8: in every successful outcome every declared array property of the
\* record, and procedures_included of every visit payment, is an array.
C8_ArraysAreArrays ==
  Succeeded =>
    /\ \A k \in ArrayFields(Stage) : IsArray(Get(outcome.data, k))
    /\ Stage = "extractBudgetData" =>
         \A i \in 1..Len(outcome.data.o[K.visit_payments].a) :
           IsArray(outcome.data.o[K.visit_payments].a[i].o[K.procedures_included])

\* a successful outcome for a response whose array property was present
\* and no array
C8_Witness ==
  /\ Succeeded
  /\ \E k \in ArrayFields(Stage) :
       /\ Get(rawData, k) # Undef
       /\ ~IsArray(Get(rawData, k))
       /\ IsArray(Get(outcome.data, k))

\* a currency that is absent, null or empty
NoCurrency(c) == c.t \in {"undef", "null"} \/ c = Str(<<>>)

\* C9: when the currency of the parsed response is absent, null or empty,
\* the record has "USD": the Budget currency, the currency of every
\* retained payment item, and payment_info.payment_currency of the CTA
\* record (payment_info itself may be absent).
C9_CurrencyDefault ==
  /\ BudgetSucceeded =>
       /\ NoCurrency(Get(rawData, K.currency)) =>
            outcome.data.o[K.currency] = Str(Lit.USD)
       /\ \A n \in 1..3 :
            LET c == PaymentCollections[n]
                out == OutputItems(c)
                kept == UsableItems(c)
            IN /\ Len(out) = Len(kept)
               /\ \A i \in 1..Len(out) :
                    /\ ~NoCurrency(out[i].o[K.currency])
                    /\ NoCurrency(OptGet(kept[i], K.currency)) =>
                         out[i].o[K.currency] = Str(Lit.USD)
  /\ (Succeeded /\ Stage = "extractCTAData") =>
       (NoCurrency(OptGet(OptGet(rawData, K.payment_info), K.payment_currency))
          => outcome.data.o[K.payment_info].o[K.payment_currency] = Str(Lit.USD))

\* a successful Budget outcome for a response with the currency "" and a
\* retained item without currency
C9_Witness ==
  /\ BudgetSucceeded
  /\ Get(rawData, K.currency) = Str(<<>>)
  /\ outcome.data.o[K.currency] = Str(Lit.USD)

\* the string properties of the record of each data stage
StringFields(stage) ==
  CASE stage = "extractProtocolData" -> {K.name, K.phase, K.indication}
    [] stage = "extractBudgetData" -> {K.currency, K.budget_type}
    [] stage = "extractCTAData" ->
         {K.document_title, K.agreement_number, K.sponsor_name, K.site_name,
          K.references_budget_amendment, K.invoice_submission_method,
          K.invoice_submission_address, K.audit_requirements,
          K.sponsor_contact_name, K.sponsor_contact_email,
          K.financial_contact_name, K.financial_contact_email}

\* C10: in every successful outcome every string property of the record
\* is a string or is omitted, and never null, the Protocol properties
\* name, phase and indication included.
C10_StringOrOmitted ==
  Succeeded =>
    \A k \in StringFields(Stage) : Get(outcome.data, k).t \in {"str", "undef"}

\* the numeric properties of the record of each data stage
NumericFields(stage) ==
  CASE stage = "extractProtocolData" -> {K.target_enrollment}
    [] stage = "extractBudgetData" ->
         {K.total_budget, K.per_patient_total, K.screen_failure_payment,
          K.early_termination_payment, K.startup_costs, K.annual_maintenance,
          K.closeout_costs}
    [] stage = "extractCTAData" -> {}

\* C11: in every successful outcome every numeric property of the record,
\* and the amount and visit_number of every payment item, is a number or
\* is omitted; a malformed numeric string never comes out unchanged.
C11_NumbersOrUnset ==
  Succeeded =>
    /\ \A k \in NumericFields(Stage) :
         Get(outcome.data, k).t \in {"num", "undef"}
    /\ Stage = "extractBudgetData" =>
         \A n \in 1..3 :
           LET c == PaymentCollections[n]
               out == OutputItems(c)
           IN \A i \in 1..Len(out) :
                /\ out[i].o[c[3]].t = "num"
                /\ Get(out[i], K.visit_number).t \in {"num", "undef"}

\* the record of a successful outcome written with JSON.stringify and given
\* to the same data stage again: cleaned, parsed and normalised
Renormalized ==
  NormalizeOf(Stage, ParseOf(Stage, Str(Stringify(outcome.data))))

\* C12: normalising the re-serialised record of a successful outcome gives
\* the same record again, for each of the three record types.
C12_Idempotent == Succeeded => Renormalized = outcome.data

\* the response text is the JSON text of an object with a trailing comma,
\* with single-quoted strings or with an unquoted key
NeedsRepair ==
  /\ ChatAnswered /\ resultText.t = "str"
  /\ Stage \in {"extractBudgetData", "extractCTAData"}
  /\ \E v \in Dressed(Raw[Stage]) :
       /\ v.o # <<>>
       /\ resultText.s \in {Dress("TrailingComma", Stringify(v)),
                            Dress("SingleQuoted", Stringify(v)),
                            Dress("UnquotedKey", Stringify(v))}

\* C13: a Budget or CTA response that is a JSON object but for a trailing
\* comma, single-quoted strings or an unquoted key is repaired to text
\* that parses as an object, and the extraction succeeds (empty-string
\* values and already-quoted keys included).
C13_RepairRecovers ==
  NeedsRepair => rawData.t = "obj" /\ outcome.method = "mistral_chat"

\* extractTextWithOCR has returned
OcrReturned == ocrResult # Empty.ocrResult

\* the upload succeeded: only then is a signed URL requested
Uploaded == calls.signedUrl >= 1

\* C14: when extractTextWithOCR returns after it uploaded an artifact, a
\* delete of the artifact has been attempted, whichever later step failed.
C14_DeleteAttempted == (OcrReturned /\ Uploaded) => calls.delete >= 1

\* the steps of a pipeline invocation so far are in order: every external
\* operation ran at most once and only after its predecessor succeeded,
\* the chat completion only for a usable OCR text, parsing only after the
\* chat completion, and a record only at the end of all of them
PipelineInOrder ==
  entry \in Pipelines =>
    /\ \A c \in DOMAIN calls : calls[c] <= 1
    /\ calls.signedUrl <= calls.upload
    /\ calls.ocr <= calls.signedUrl
    /\ calls.delete <= calls.ocr
    /\ calls.chat <= calls.delete
    /\ calls.chat = 1 => OcrReturned /\ ~OcrUnusable(ocrResult)
    /\ rawData # Undef => calls.chat = 1
    /\ Succeeded => (\A c \in DOMAIN calls : calls[c] = 1) /\ ~IsThrow(rawData)
    /\ IF Done THEN outcome.method \in {"error", "mistral_chat"}
               ELSE outcome = Empty.outcome

\* C15: a pipeline invocation goes through upload, text extraction, field
\* extraction and normalisation in that order, no step skipped or run
\* twice, and its end (record or failure) is final.
C15_StateMachine == []PipelineInOrder /\ [][Done => UNCHANGED vars]_vars

\* a pipeline that went through every step and returned a record
C15_Witness ==
  /\ entry \in Pipelines /\ Succeeded
  /\ \A c \in DOMAIN calls : calls[c] = 1

(***************************************************************************)
(* The extraction routes of the calling layer:                             *)
(* POST /api/extract-protocol and POST /api/extract-budget                 *)
(***************************************************************************)
MAX_SIZE == 50 * 1024 * 1024
PDF == "application/pdf"

Files ==
  {Empty.file} \cup [present : {TRUE}, type : {PDF, "image/png"},
                 size : {MAX_SIZE, MAX_SIZE + 1}]

\* the role in the caller's row of the users table, "none" without a row
Roles == {"none", "coordinator", "pi", "admin"}

\* a request: the route, whether supabase.auth.getUser() finds a user, the
\* role the extract-protocol route reads for the user ("none" where no role
\* is read) and the uploaded file
Requests ==
  {r \in [route : {"extract-protocol", "extract-budget"}, user : BOOLEAN,
          role : Roles, file : Files] :
     (~r.user \/ r.route = "extract-budget") => r.role = "none"}

Reply(status, error) == [status |-> status, error |-> error]
ReplyData(data) == [status |-> 200, data |-> data]

\* what anthropic.messages.create gives: a throw, a message without a text
\* block, or a message with a text block
AnthropicAnswers ==
  {Throw(m) : m \in ErrorMessages} \cup {Undef}
  \cup {Str(t) : t \in {T.notJson, Dress("AfterProse", Stringify(Obj(<<>>))),
                        Stringify(Num(5)),
                        Stringify(MakeObj(<< <<K.name, Str(T.a)>> >>))}}

\* lines 89-117 of the extract-protocol route: the reply for an answer
ProtocolReply(answer) ==
  IF IsThrow(answer)
    THEN Reply(500, MessageOr(answer.m, "Failed to extract protocol data"))
  ELSE IF answer.t # "str" THEN Reply(500, "No text content in response")
  ELSE LET extractedData == JsonParse(MatchBraces(answer.s))
       IN IF IsThrow(extractedData)
            THEN Reply(500, "Failed to parse extracted data")
            ELSE ReplyData(extractedData)

\* POST /api/extract-protocol, the whole handler
ExtractProtocolPost ==
  /\ pc = "idle" /\ request = Empty.request
  /\ \E r \in Requests :
       /\ r.route = "extract-protocol"
       /\ request' = r
       /\ IF ~r.user
            THEN response' = Reply(401, "Unauthorized") /\ UNCHANGED llmCalls
          ELSE IF r.role \notin {"pi", "admin"}
            THEN response' = Reply(403, "Forbidden") /\ UNCHANGED llmCalls
          ELSE IF ~r.file.present
            THEN response' = Reply(400, "No file uploaded") /\ UNCHANGED llmCalls
          ELSE /\ llmCalls' = llmCalls + 1
               /\ \E answer \in AnthropicAnswers :
                    response' = ProtocolReply(answer)
  /\ UNCHANGED <<library, elsewhere>>

\* POST /api/extract-budget up to the call of extractBudget (lines 36-73)
ExtractBudgetPost ==
  /\ pc = "idle" /\ request = Empty.request
  /\ \E r \in Requests :
       /\ r.route = "extract-budget"
       /\ request' = r
       /\ IF ~r.user
            THEN /\ response' = Reply(401, "Please log in to extract budget data")
                 /\ UNCHANGED <<entry, pc>>
          ELSE IF ~r.file.present
            THEN /\ response' = Reply(400, "No file uploaded")
                 /\ UNCHANGED <<entry, pc>>
          ELSE IF r.file.type # PDF
            THEN /\ response' = Reply(400, "Only PDF files are supported")
                 /\ UNCHANGED <<entry, pc>>
          ELSE IF r.file.size > MAX_SIZE
            THEN /\ response' = Reply(400, "File size must be less than 50MB")
                 /\ UNCHANGED <<entry, pc>>
          ELSE /\ entry' = "extractBudget"
               /\ pc' = "ocr_entry"
               /\ UNCHANGED response
  /\ UNCHANGED <<apiKey, calls, text, ocrResult, documentText, resultText,
                 rawData, outcome, llmCalls, elsewhere>>

\* POST /api/extract-budget after extractBudget returned (lines 75-90)
ExtractBudgetRespond ==
  /\ pc = "done" /\ request # Empty.request /\ response = Empty.response
  /\ response' =
       IF outcome.method = "error" \/ "data" \notin DOMAIN outcome
         THEN Reply(500, MessageOr(outcome.error, "Failed to extract budget data"))
         ELSE ReplyData(outcome.data)
  /\ UNCHANGED <<library, request, llmCalls, elsewhere>>

RouteNext ==
  \/ ExtractProtocolPost
  \/ ExtractBudgetPost
  \/ OcrEntry
  \/ Upload
  \/ GetSignedUrl
  \/ OcrProcess
  \/ DeleteFile
  \/ PipelineResume
  \/ DataEntry
  \/ ChatComplete
  \/ ExtractBudgetRespond

RouteSpec == Init /\ [][RouteNext]_vars

\* requests the route sent to an OCR or LLM provider so far
ExternalCalls ==
  llmCalls + calls.upload + calls.signedUrl + calls.ocr + calls.delete
  + calls.chat

\* C16: a route sends a request to an OCR or LLM provider only for an
\* upload of type application/pdf and at most 50 MB; any other upload is
\* answered with 400 and no external call.
C16_OnlyPdfUpTo50MB ==
  (request # Empty.request /\ request.file.present) =>
    IF request.file.type = PDF /\ request.file.size <= MAX_SIZE
      THEN TRUE
      ELSE /\ ExternalCalls = 0
           /\ response # Empty.response => response.status \in {400, 401, 403}

(***************************************************************************)
(* Concurrent invocations of extractTextWithOCR (mistral-ocr.ts, 29-89).   *)
(* Every variable of the function is a local of the invocation; the only   *)
(* state the invocations share is the environment (the API key) and the    *)
(* files of the Mistral service, which gives every upload an id of its own.*)
(***************************************************************************)
\* what client.ocr.process may answer for the file f of the service: no
\* pages, or the pages of the document uploaded as f (the markdown of the
\* first invocation's document is T.a, of the second's T.abc); a file that
\* was deleted gives no answer but an error
OcrAnswers(f) ==
  IF f \in 1..Len(files) /\ files[f].live
    THEN {Undef, Arr(<<>>), Arr(<<Str(<<" ">>)>>),
          Arr(<<Str(IF files[f].by = 1 THEN T.a ELSE T.abc)>>)}
    ELSE {}

\* a module-level id of the file uploaded last, shared by the invocations
\* (C17 depends on the id being a local)
LastUploadedFile(i) == Len(files)

\* uploadedFile.id: the id in the local uploadedFile of invocation i
OwnFile(i) == runs[i].uploadedFile

\* runs after invocation i sent the request op for file f
Sent(i, op, f) == [runs EXCEPT ![i].requests = @ \cup {<<op, f>>}]

\* rs after invocation i received response r and went on to next
Received(rs, i, r, next) ==
  [rs EXCEPT ![i].responses = Append(@, r), ![i].pc = next]

\* rs after invocation i returned result
Returned(rs, i, result) == [rs EXCEPT ![i].result = result, ![i].pc = "done"]

\* rs after a request of invocation i threw an error with message m: the
\* catch block (lines 85-88)
Caught(rs, i, m) ==
  Returned(Received(rs, i, [ok |-> FALSE, message |-> m], "done"), i,
           [text |-> <<>>, error |-> MessageOr(m, Msg.OcrFailed)])

\* lines 30-35: the API key check
ConcEntry(i) ==
  /\ runs[i].pc = "ocr_entry"
  /\ runs' = IF ~apiKey
               THEN Returned(runs, i, [text |-> <<>>, error |-> Msg.NoKey])
               ELSE [runs EXCEPT ![i].pc = "upload"]
  /\ UNCHANGED <<library, request, response, llmCalls, page, now, posts, files, authUsers, db, reply>>

\* lines 45-51: client.files.upload stores the file under a new id, or throws
ConcUpload(i) ==
  /\ runs[i].pc = "upload"
  /\ \/ /\ files' = Append(files, [by |-> i, live |-> TRUE])
        /\ runs' = [Received(runs, i, [ok |-> TRUE], "signedUrl")
                      EXCEPT ![i].uploadedFile = Len(files) + 1]
     \/ /\ \E m \in ErrorMessages : runs' = Caught(runs, i, m)
        /\ UNCHANGED files
  /\ UNCHANGED <<library, request, response, llmCalls, page, now, posts, authUsers, db, reply>>

\* lines 56-58: client.files.getSignedUrl({fileId: uploadedFile.id}) answers
\* with a URL of that file, or throws
ConcGetSignedUrl(i) ==
  /\ runs[i].pc = "signedUrl"
  /\ LET f == OwnFile(i)
         sent == Sent(i, "signedUrl", f)
     IN \/ runs' = [Received(sent, i, [ok |-> TRUE], "ocrProcess")
                      EXCEPT ![i].signedUrl = f]
        \/ \E m \in ErrorMessages : runs' = Caught(sent, i, m)
  /\ UNCHANGED <<library, request, response, llmCalls, page, now, posts, files, authUsers, db, reply>>

\* lines 61-71: client.ocr.process({documentUrl: signedUrl.url}) answers for
\* the file the URL points to, or throws
ConcOcrProcess(i) ==
  /\ runs[i].pc = "ocrProcess"
  /\ LET f == runs[i].signedUrl
         sent == Sent(i, "ocr", f)
     IN \/ \E pages \in OcrAnswers(f) :
             runs' = [Received(sent, i, [ok |-> TRUE, pages |-> pages], "delete")
                        EXCEPT ![i].text = PagesText(pages)]
        \/ \E m \in ErrorMessages : runs' = Caught(sent, i, m)
  /\ UNCHANGED <<library, request, response, llmCalls, page, now, posts, files, authUsers, db, reply>>

\* a delete without a try block of its own: a throw of client.files.delete
\* reaches the catch block of the function (C24 depends on the inner try)
ConcDeletePropagated(i) ==
  /\ runs[i].pc = "delete"
  /\ \/ /\ files' = [files EXCEPT ![runs[i].uploadedFile].live = FALSE]
        /\ runs' = [runs EXCEPT
                      ![i].requests = @ \cup {<<"delete", runs[i].uploadedFile>>},
                      ![i].responses = Append(@, [ok |-> TRUE]),
                      ![i].result = OcrTextResult(runs[i].text),
                      ![i].pc = "done"]
     \/ /\ UNCHANGED files
        /\ \E m \in ErrorMessages :
             runs' = [runs EXCEPT
                        ![i].requests = @ \cup {<<"delete", runs[i].uploadedFile>>},
                        ![i].responses = Append(@, [ok |-> FALSE]),
                        ![i].result =
                          [text |-> <<>>, error |-> MessageOr(m, Msg.OcrFailed)],
                        ![i].pc = "done"]
  /\ UNCHANGED <<library, request, response, llmCalls, page, now, posts, authUsers, db, reply>>

\* lines 74-84: client.files.delete({fileId: uploadedFile.id}) deletes the
\* file or throws (the throw is caught and logged), then the text is checked
\* and returned
ConcDelete(i) ==
  /\ runs[i].pc = "delete"
  /\ LET f == OwnFile(i)
     IN \E deleted \in BOOLEAN :
          /\ files' = IF deleted THEN [files EXCEPT ![f].live = FALSE] ELSE files
          /\ runs' = Returned(Received(Sent(i, "delete", f), i,
                                       [ok |-> deleted], "done"),
                              i, OcrTextResult(runs[i].text))
  /\ UNCHANGED <<library, request, response, llmCalls, page, now, posts, authUsers, db, reply>>

ConcNext ==
  \E i \in Invocations :
    \/ ConcEntry(i)
    \/ ConcUpload(i)
    \/ ConcGetSignedUrl(i)
    \/ ConcOcrProcess(i)
    \/ ConcDelete(i)

ConcSpec == Init /\ [][ConcNext]_vars

\* what extractTextWithOCR returns when it runs alone and the service gives
\* the responses rs to its requests (upload, signed URL, OCR, delete)
Alone(rs) ==
  IF ~apiKey THEN [text |-> <<>>, error |-> Msg.NoKey]
  ELSE IF \E k \in 1..Len(rs) : k <= 3 /\ ~rs[k].ok
    THEN LET k == CHOOSE n \in 1..Len(rs) :
                    ~rs[n].ok /\ \A e \in 1..(n - 1) : rs[e].ok
         IN [text |-> <<>>, error |-> MessageOr(rs[k].message, Msg.OcrFailed)]
  ELSE OcrTextResult(PagesText(rs[3].pages))

\* C17: whatever the interleaving of the concurrent invocations, an
\* invocation that has returned returned what it returns alone for the
\* responses it received, and every request an invocation sent for a file
\* (signed URL, OCR, delete) names a file that the invocation uploaded itself.
C17_Isolated ==
  \A i \in Invocations :
    /\ runs[i].pc = "done" => runs[i].result = Alone(runs[i].responses)
    /\ \A q \in runs[i].requests :
         q[2] \in 1..Len(files) /\ files[q[2]].by = i

\* the second invocation ran from its upload to its return with a text while
\* the first, which uploaded before it, had not yet deleted its file
C17_Witness ==
  /\ runs[1].uploadedFile = 1 /\ runs[1].pc \in {"ocrProcess", "delete"}
  /\ runs[2].uploadedFile = 2 /\ runs[2].pc = "done"
  /\ runs[2].result = [text |-> T.abc]
  /\ Cardinality(runs[2].requests) = 3

(***************************************************************************)
(* Sign-up, profiles, studies and teams: the login form and the auth       *)
(* callback (unnamed/part_002), the useUser hook, the database trigger of  *)
(* SETUP.md, and the routes /api/studies, /api/studies/[id] and            *)
(* /api/studies/[id]/members.  The routes read and write the tables with   *)
(* the service client, which bypasses row level security.                  *)
(***************************************************************************)
\* the role of the row of user u in the users table, "none" without a row
RoleOf(u) ==
  IF \E r \in db.users : r.id = u
    THEN (CHOOSE r \in db.users : r.id = u).role
    ELSE "none"

\* the users table after a profile with the role was inserted for user u
\* where u had none (users.id is the primary key of the table)
WithProfile(u, role) ==
  IF RoleOf(u) # "none" THEN db.users
  ELSE db.users \cup {[id |-> u, role |-> role]}

\* the login form: signInWithOtp with the role in the metadata; where the
\* trigger on_auth_user_created is installed, it inserts the profile with
\* that role
SignUpAs(u, role, trigger) ==
  /\ authUsers[u] = "none"
  /\ authUsers' = [authUsers EXCEPT ![u] = role]
  /\ db' = IF trigger THEN [db EXCEPT !.users = WithProfile(u, role)] ELSE db
  /\ UNCHANGED <<library, request, response, llmCalls, page, now, posts, runs, files,
                 reply>>

\* the login form with any role selected
SignUp(u) ==
  \E role \in Roles \ {"none"}, trigger \in BOOLEAN : SignUpAs(u, role, trigger)

\* GET /auth/callback with a code for the session of user u and the token of
\* invitation inv, or without a token (inv is Empty.reply): the update of the
\* status asks for the token and the user's email (lines 19-23), the select
\* of the role and the study asks for the token alone (lines 38-42)
AuthCallbackWith(u, inv) ==
  /\ authUsers[u] # "none"
  /\ LET invited == inv # Empty.reply
         accepted ==
           {IF invited /\ i = inv /\ i.email = u
              THEN [i EXCEPT !.status = "accepted"] ELSE i : i \in db.invitations}
         role == IF invited THEN inv.role ELSE authUsers[u]
     IN db' = IF RoleOf(u) # "none"
                THEN [db EXCEPT !.invitations = accepted]
                ELSE [db EXCEPT
                        !.invitations = accepted,
                        !.study_members =
                          IF invited /\ inv.study_id # 0
                            THEN @ \cup {[study_id |-> inv.study_id, user_id |-> u]}
                            ELSE @,
                        !.users = WithProfile(u, role)]
  /\ UNCHANGED <<library, request, response, llmCalls, page, now, posts, runs, files,
                 authUsers, reply>>

\* GET /auth/callback for the session of user u, with or without the token
\* of an invitation
AuthCallback(u) ==
  \E inv \in db.invitations \cup {Empty.reply} : AuthCallbackWith(u, inv)

\* fetchOrCreateProfile of the useUser hook for the signed-in user u
FetchOrCreateProfile(u) ==
  /\ authUsers[u] # "none"
  /\ db' = [db EXCEPT !.users = WithProfile(u, authUsers[u])]
  /\ UNCHANGED <<library, request, response, llmCalls, page, now, posts, runs, files, authUsers,
                 reply>>

\* the response with the status to caller c of the route, about study s
Answer(route, c, status, s) ==
  reply' = [route |-> route, caller |-> c, status |-> status, study |-> s]

\* supabase.auth.getUser() finds a user for caller c
SignedIn(c) == c \in UserIds /\ authUsers[c] # "none"

\* POST /api/studies by caller c
StudiesPost(c) ==
  /\ IF ~SignedIn(c)
       THEN Answer("POST studies", c, 401, 0) /\ UNCHANGED db
       ELSE LET id == Cardinality(db.studies) + 1
            IN /\ id <= MaxStudies
               /\ db' = [db EXCEPT
                           !.users = WithProfile(c, "pi"),
                           !.studies = @ \cup {[id |-> id, owner_id |-> c]}]
               /\ Answer("POST studies", c, 200, id)
  /\ UNCHANGED <<library, request, response, llmCalls, page, now, posts, runs, files, authUsers>>

\* new Date() + 7 days: the days an invitation is valid
Lifetime == 7

\* the row an invitation POST inserts: randomUUID() gives a token no other
\* row has, and expires_at is the clock plus the lifetime; study 0 is null
NewInvitation(email, s, role) ==
  [email |-> email, study_id |-> s, role |-> role, status |-> "pending",
   token |-> Cardinality(db.invitations) + 1, expires_at |-> now + Lifetime]

\* POST /api/studies/[id]/members by caller c for study s, with the email
\* of user t and a role; an insert for a study that does not exist fails
MembersPost(c, s) ==
  /\ \E t \in UserIds, role \in {"coordinator", "pi"} :
       LET member == [study_id |-> s, user_id |-> t]
           invitation == NewInvitation(t, s, role)
           exists == \E st \in db.studies : st.id = s
       IN IF ~SignedIn(c)
            THEN Answer("POST members", c, 401, s) /\ UNCHANGED db
          ELSE IF RoleOf(t) # "none"
            THEN IF member \in db.study_members
                   THEN Answer("POST members", c, 400, s) /\ UNCHANGED db
                 ELSE IF ~exists
                   THEN Answer("POST members", c, 500, s) /\ UNCHANGED db
                 ELSE /\ db' = [db EXCEPT !.study_members = @ \cup {member}]
                      /\ Answer("POST members", c, 200, s)
          ELSE IF \E i \in db.invitations :
                    i.email = t /\ i.study_id = s /\ i.status = "pending"
            THEN Answer("POST members", c, 400, s) /\ UNCHANGED db
          ELSE IF ~exists
            THEN Answer("POST members", c, 500, s) /\ UNCHANGED db
          ELSE /\ db' = [db EXCEPT !.invitations = @ \cup {invitation}]
               /\ Answer("POST members", c, 200, s)
  /\ UNCHANGED <<library, request, response, llmCalls, page, now, posts, runs, files, authUsers>>

\* DELETE /api/studies/[id]/members by caller c, with or without a memberId
MembersDelete(c, s) ==
  /\ \E m \in db.study_members \cup {Empty.reply} :
       IF ~SignedIn(c)
         THEN Answer("DELETE members", c, 401, s) /\ UNCHANGED db
       ELSE IF m = Empty.reply
         THEN Answer("DELETE members", c, 400, s) /\ UNCHANGED db
       ELSE /\ db' = [db EXCEPT !.study_members = @ \ {m}]
            /\ Answer("DELETE members", c, 200, m.study_id)
  /\ UNCHANGED <<library, request, response, llmCalls, page, now, posts, runs, files, authUsers>>

\* GET /api/studies/[id] by caller c for study s: the study, its members and
\* its patients
StudyGet(c, s) ==
  /\ IF ~SignedIn(c) THEN Answer("GET study", c, 401, s)
     ELSE IF ~\E st \in db.studies : st.id = s THEN Answer("GET study", c, 404, s)
     ELSE Answer("GET study", c, 200, s)
  /\ UNCHANGED <<library, request, response, llmCalls, page, now, posts, runs, files, authUsers,
                 db>>

AccessNext ==
  \/ \E u \in UserIds : SignUp(u) \/ AuthCallback(u) \/ FetchOrCreateProfile(u)
  \/ \E c \in UserIds \cup {0} : StudiesPost(c)
  \/ \E c \in UserIds \cup {0}, s \in 1..MaxStudies :
       MembersPost(c, s) \/ MembersDelete(c, s) \/ StudyGet(c, s)

AccessSpec == Init /\ [][AccessNext]_vars

\* the callers of the routes: the users, and a request without a session
Callers == UserIds \cup {0}

\* C18: a step of POST /api/studies, POST or DELETE /api/studies/[id]/members
\* that changes a table (a study created, a member added or removed, an
\* invitation created) is taken only for a caller whose profile has the
\* role pi or admin; a coordinator and a caller without a profile change
\* nothing through these routes.
C18_OnlyPiOrAdminManage ==
  [][\A c \in Callers :
       ( /\ \/ StudiesPost(c)
            \/ \E s \in 1..MaxStudies : MembersPost(c, s) \/ MembersDelete(c, s)
         /\ db' # db )
       => RoleOf(c) \in {"pi", "admin"}]_vars

\* caller c owns study s, is a member of it, or is an admin
Entitled(c, s) ==
  \/ \E st \in db.studies : st.id = s /\ st.owner_id = c
  \/ [study_id |-> s, user_id |-> c] \in db.study_members
  \/ RoleOf(c) = "admin"

\* C19: GET /api/studies/[id] answers with the study, its members and its
\* patients (status 200) only for a caller who owns the study, is a member
\* of it, or is an admin.
C19_DetailOnlyForEntitled ==
  [][\A c \in Callers, s \in 1..MaxStudies :
       (StudyGet(c, s) /\ reply'.status = 200) => Entitled(c, s)]_vars

\* C20: a user who signed up with the role R selected in the login form and
\* has a profile has exactly one row in the users table, and its role is R,
\* whichever path created the row.
C20_ProfileHasSelectedRole ==
  \A u \in UserIds :
    (authUsers[u] # "none" /\ RoleOf(u) # "none") =>
      /\ Cardinality({r \in db.users : r.id = u}) = 1
      /\ RoleOf(u) = authUsers[u]

(***************************************************************************)
(* Repair, list normalisation, error handling and termination of the       *)
(* pipelines                                                               *)
(***************************************************************************)
\* the cleaned text that the data stage hands to its first JSON.parse
Cleaned ==
  IF Stage = "extractProtocolData" THEN CleanJsonResponseProtocol(resultText.s)
  ELSE CleanJsonResponseBudget(resultText.s)

\* the response is a string and the strict parse of its cleaned text fails
StrictParseFailed ==
  /\ ChatAnswered /\ resultText.t = "str"
  /\ IsThrow(JsonParse(Cleaned))

\* C21: in each of the three data stages, when the strict parse of the
\* cleaned response fails, the value the stage goes on with is the parse of
\* the repaired text (one more parse), so that the stage fails with a parse
\* error only when the parse of the repaired text fails too.
C21_RepairThenReparseOnce ==
  StrictParseFailed =>
    /\ rawData = JsonParse(Repair(Cleaned))
    /\ rawData = Throw("SyntaxError") => IsThrow(JsonParse(Repair(Cleaned)))

\* the lines of string s: the pieces between its newlines
Lines(s) ==
  LET breaks == {p \in 1..Len(s) : s[p] = Ch.NL}
      \* the position of the n-th newline; 0 and Len(s) + 1 stand at the ends
      Break(n) ==
        IF n = 0 THEN 0
        ELSE IF n > Cardinality(breaks) THEN Len(s) + 1
        ELSE CHOOSE p \in breaks : Cardinality({q \in breaks : q < p}) = n - 1
  IN [n \in 1..(Cardinality(breaks) + 1) |->
        SubSeq(s, Break(n - 1) + 1, Break(n) - 1)]

\* the strings of ss trimmed, without those that are empty then
TrimmedNonEmpty(ss) ==
  LET trimmed == [i \in 1..Len(ss) |-> Str(Trim(ss[i]))]
      Kept(x) == x # Str(<<>>)
  IN Arr(SelectSeq(trimmed, Kept))

\* the list of strings that the rule for lists gives for the raw value v
ListRule(v) ==
  IF IsArray(v) THEN TrimmedNonEmpty([i \in 1..Len(v.a) |-> StringOf(v.a[i])])
  ELSE IF v.t = "str" /\ \E i \in 1..Len(v.s) : v.s[i] = Ch.NL
    THEN TrimmedNonEmpty(Lines(v.s))
  ELSE IF v.t = "str" THEN TrimmedNonEmpty(<<v.s>>)
  ELSE Arr(<<>>)

ProtocolLists == {K.inclusion_criteria, K.exclusion_criteria, K.visit_schedule}

\* C22: in a Protocol record, inclusion_criteria, exclusion_criteria and
\* visit_schedule hold what the rule for lists gives for the parsed value:
\* the trimmed non-empty strings of an array's elements, the trimmed
\* non-empty lines of a string with a newline, the trimmed string alone for
\* another non-blank string, and the empty array for everything else.
C22_ProtocolLists ==
  (Succeeded /\ Stage = "extractProtocolData") =>
    \A k \in ProtocolLists : Get(outcome.data, k) = ListRule(Get(rawData, k))

\* a string of two padded lines became the list of the two trimmed lines, and
\* an array lost its empty element and kept "null" for null
C22_Witness ==
  /\ Succeeded /\ Stage = "extractProtocolData"
  /\ \E k \in ProtocolLists :
       \/ /\ Get(rawData, k) = Str(T.lines)
          /\ Get(outcome.data, k) = Arr(<<Str(T.a), Str(<<"b">>)>>)
       \/ /\ Get(rawData, k) = Arr(<<Str(<<>>), Null>>)
          /\ Get(outcome.data, k) = Arr(<<Str(Lit.null)>>)

\* the string-list properties of the record of a data stage
ListFields(stage) ==
  CASE stage = "extractProtocolData" -> ProtocolLists
    [] stage = "extractBudgetData" -> {K.pass_through_costs, K.important_notes}
    [] stage = "extractCTAData" ->
         {K.invoice_requirements, K.payment_hold_conditions, K.important_notes}

\* C23: in a Budget or CTA record, pass_through_costs, important_notes,
\* invoice_requirements and payment_hold_conditions hold what the rule for
\* lists gives for the parsed value, and the procedures_included of every
\* visit is a list that the rule leaves as it is (trimmed non-empty strings).
C23_BudgetCtaLists ==
  (Succeeded /\ Stage \in {"extractBudgetData", "extractCTAData"}) =>
    /\ \A k \in ListFields(Stage) :
         Get(outcome.data, k) = ListRule(Get(rawData, k))
    /\ Stage = "extractBudgetData" =>
         \A i \in 1..Len(Get(outcome.data, K.visit_payments).a) :
           LET list == Get(Get(outcome.data, K.visit_payments).a[i],
                           K.procedures_included)
           IN ListRule(list) = list

\* invocation i of extractTextWithOCR came to the delete and returned
Deleted(i) == runs[i].pc = "done" /\ Len(runs[i].responses) = 4

\* C24: what extractTextWithOCR returns after the delete of the uploaded file
\* is fixed by the OCR response alone: it is the text of the pages (or the
\* no-text error) whether the delete succeeded or threw, so two invocations
\* with the same OCR response return the same value.
C24_DeleteFailureNotPropagated ==
  \A i \in Invocations :
    Deleted(i) =>
      /\ runs[i].result = OcrTextResult(PagesText(runs[i].responses[3].pages))
      /\ \A j \in Invocations :
           (Deleted(j) /\ runs[j].responses[3] = runs[i].responses[3])
             => runs[j].result = runs[i].result

\* the delete threw for the first invocation and succeeded for the second,
\* and each returned the text of its document
C24_Witness ==
  /\ Deleted(1) /\ ~runs[1].responses[4].ok /\ runs[1].result = [text |-> T.a]
  /\ Deleted(2) /\ runs[2].responses[4].ok /\ runs[2].result = [text |-> T.abc]

\* extractTextWithOCR has handed a value back, to the caller or to a pipeline
OcrStageReturned == ocrResult # Empty.ocrResult
\* an external operation of the OCR stage threw: the stage returned before
\* it came to the delete
OcrCallFailed == OcrStageReturned /\ calls.upload = 1 /\ calls.delete = 0
\* the chat completion of the data stage threw
ChatFailed == Done /\ calls.chat = 1 /\ resultText = Undef

\* C25: no stage raises an exception to its caller. What extractTextWithOCR
\* hands back is always a result with a text, and carries an error message
\* when an upload, signed-URL or OCR call threw; what a data stage or a
\* pipeline returns is always a record with method "error" or "mistral_chat",
\* and it is an error record with a message when the OCR stage failed, when
\* the chat completion threw, and when the content did not parse.
C25_NoThrowPastBoundary ==
  /\ pc \in {"idle", "ocr_entry", "upload", "signedUrl", "ocrProcess",
             "delete", "ocr_returned", "data_entry", "chat", "done"}
  /\ OcrStageReturned =>
       /\ "text" \in DOMAIN ocrResult
       /\ OcrCallFailed => ("error" \in DOMAIN ocrResult /\ ocrResult.error # "")
  /\ (Done /\ entry # "extractTextWithOCR") =>
       /\ "method" \in DOMAIN outcome
       /\ outcome.method \in {"error", "mistral_chat"}
       /\ ( \/ ChatFailed
            \/ (OcrStageReturned /\ OcrUnusable(ocrResult))
            \/ (ChatAnswered /\ IsThrow(rawData)) )
            => (outcome.method = "error" /\ outcome.error # "")

\* the chat completion of the Budget pipeline threw an error without a
\* message and the pipeline returned an error record
C25_Witness ==
  /\ entry = "extractBudget"
  /\ ChatFailed
  /\ outcome.method = "error"
  /\ outcome.error = MsgExtractFailed("extractBudgetData")

\* C26: when every external call eventually returns or fails, an invocation
\* that has started eventually returns.
C26_StartedEventuallyReturns == (pc # "idle") ~> Done

\* the CTA pipeline made each of its five external calls once and returned
C26_Witness ==
  /\ entry = "extractCTA"
  /\ Done
  /\ calls = [upload |-> 1, signedUrl |-> 1, ocr |-> 1, delete |-> 1, chat |-> 1]

(***************************************************************************)
(* Invitations: POST /api/admin/invitations, the invitation branch of      *)
(* POST /api/studies/[id]/members, GET /api/invitations/[token] and the    *)
(* auth callback, with the server's clock.  A POST reads the tables, then  *)
(* inserts: other requests may run between its check and its insert.      *)
(***************************************************************************)
\* the invitations the tables hold at most, the last day of the clock, and
\* the POSTs that may stand between their check and their insert
MaxInvitations == 2
MaxDay == 8
MaxPosts == 2

\* the emails invitations are sent to: the email of the second user, and
\* an email nobody has signed up with
Emails == {2, 3}

\* the pending invitations for the email
PendingFor(email) ==
  {i \in db.invitations : i.email = email /\ i.status = "pending"}

\* POST /api/admin/invitations by caller c, lines 50-86: the checks for the
\* admin, the existing user and the pending invitation; .single() gives a
\* row only where exactly one row matches. The request invites an admin
\* and names no study
AdminInvitationsCheck(c) ==
  /\ \E t \in Emails, role \in {"admin"}, s \in {0} :
       IF ~SignedIn(c)
         THEN Answer("POST invitations", c, 401, s) /\ UNCHANGED posts
       ELSE IF RoleOf(c) # "admin"
         THEN Answer("POST invitations", c, 403, s) /\ UNCHANGED posts
       ELSE IF RoleOf(t) # "none" \/ Cardinality(PendingFor(t)) = 1
         THEN Answer("POST invitations", c, 400, s) /\ UNCHANGED posts
       ELSE /\ Cardinality(posts) < MaxPosts
            /\ posts' = posts \cup
                 {[route |-> "POST invitations", caller |-> c, email |-> t,
                   role |-> role, study_id |-> s]}
            /\ UNCHANGED reply
  /\ UNCHANGED <<library, request, response, llmCalls, page, now, runs, files,
                 authUsers, db>>

\* POST /api/studies/[id]/members by caller c for study s with the email of
\* somebody without a profile, lines 62-87: the check for a pending
\* invitation for this email and this study
MembersInviteCheck(c, s) ==
  /\ SignedIn(c)
  /\ \E t \in Emails, role \in {"coordinator"} :
       /\ RoleOf(t) = "none"
       /\ IF Cardinality({i \in PendingFor(t) : i.study_id = s}) = 1
            THEN Answer("POST members", c, 400, s) /\ UNCHANGED posts
            ELSE /\ Cardinality(posts) < MaxPosts
                 /\ posts' = posts \cup
                      {[route |-> "POST members", caller |-> c, email |-> t,
                        role |-> role, study_id |-> s]}
                 /\ UNCHANGED reply
  /\ UNCHANGED <<library, request, response, llmCalls, page, now, runs, files,
                 authUsers, db>>

\* the insert of the POST p that passed its check (lines 88-110 of the admin
\* route, 89-109 of the members route): an insert for a study that does not
\* exist fails
InvitationInsert(p) ==
  /\ p \in posts
  /\ posts' = posts \ {p}
  /\ IF p.study_id # 0 /\ ~\E st \in db.studies : st.id = p.study_id
       THEN Answer(p.route, p.caller, 500, p.study_id) /\ UNCHANGED db
       ELSE /\ Cardinality(db.invitations) < MaxInvitations
            /\ db' = [db EXCEPT !.invitations =
                        @ \cup {NewInvitation(p.email, p.study_id, p.role)}]
            /\ Answer(p.route, p.caller, 200, p.study_id)
  /\ UNCHANGED <<library, request, response, llmCalls, page, now, runs, files,
                 authUsers>>

\* GET /api/invitations/[token]: the email and the role of the pending
\* invitation with the token, 404 without one, 410 after its expires_at
InvitationGet(token) ==
  /\ LET rows == {i \in db.invitations : i.token = token /\ i.status = "pending"}
         found == CHOOSE i \in rows : TRUE
     IN reply' =
          IF Cardinality(rows) # 1
            THEN [route |-> "GET invitation", caller |-> 0, status |-> 404,
                  study |-> 0]
          ELSE IF found.expires_at < now
            THEN [route |-> "GET invitation", caller |-> 0, status |-> 410,
                  study |-> 0]
          ELSE [route |-> "GET invitation", caller |-> 0, status |-> 200,
                study |-> 0, email |-> found.email, role |-> found.role]
  /\ UNCHANGED <<library, request, response, llmCalls, page, now, posts, runs, files,
                 authUsers, db>>

\* days pass; the clock is read on the day of the first invitation, on the
\* last day of its lifetime, and on a day after it
Tick ==
  /\ now' \in {d \in {0, Lifetime, MaxDay} : d > now}
  /\ UNCHANGED <<library, request, response, llmCalls, page, posts, runs, files,
                 authUsers, db, reply>>

\* the first user signs up as the admin where the trigger is installed and
\* invites to studies, the second signs up as a coordinator without a profile
InviteNext ==
  \/ SignUpAs(1, "admin", TRUE)
  \/ SignUpAs(2, "coordinator", FALSE)
  \/ \E u \in UserIds : AuthCallback(u)
  \/ \E c \in UserIds : StudiesPost(c) \/ AdminInvitationsCheck(c)
  \/ \E s \in 1..MaxStudies : MembersInviteCheck(1, s)
  \/ \E p \in posts : InvitationInsert(p)
  \/ \E token \in 1..MaxInvitations : InvitationGet(token)
  \/ Tick

InviteSpec == Init /\ [][InviteNext]_vars

\* the invitation has expired
Expired(i) == i.expires_at < now

\* C27: once the clock is past the expires_at of an invitation, no request
\* uses it: GET /api/invitations/[token] does not answer with its email and
\* role, and no auth callback with its token changes a table (its status,
\* a profile with its role, a membership of its study).
C27_ExpiredInvitationUnusable ==
  [][\A i \in db.invitations :
       Expired(i) =>
         /\ ~(InvitationGet(i.token) /\ reply'.status = 200)
         /\ \A u \in UserIds : ~(AuthCallbackWith(u, i) /\ db' # db)]_vars

\* C28: an auth callback that creates the profile of user u with the token
\* of an invitation does so only with an invitation that is addressed to u
\* and is pending.
C28_GrantOnlyToAddressee ==
  [][\A u \in UserIds, i \in db.invitations :
       (AuthCallbackWith(u, i) /\ RoleOf(u) = "none")
         => (i.email = u /\ i.status = "pending")]_vars

\* C29: at most one invitation with status pending exists per email.
C29_OnePendingPerEmail ==
  \A t \in Emails : Cardinality(PendingFor(t)) <= 1

(***************************************************************************)
(* The Budget/CTA upload page (app/studies/[id]/upload-budget/page.tsx).   *)
(* A handler reads the state of the render it was created in: after its    *)
(* await, handleExtract still holds the file and the document type of the  *)
(* click, whatever the user selected since.                                *)
(***************************************************************************)
\* the PDF files the user may select
MaxFiles == 2

\* what /api/extract-budget or /api/extract-cta extracts from file f
Extracted(f, type) == [file |-> f, type |-> type]

\* handleFileChange with a PDF of an accepted size
HandleFileChange(f) ==
  /\ page' = [page EXCEPT !.file = f, !.extractedBudget = Null,
                          !.extractedCTA = Null]
  /\ UNCHANGED <<library, request, response, llmCalls, now, posts, runs, files,
                 authUsers, db, reply>>

\* the onClick of a document type button (lines 180-186, 197-203)
SetDocumentType(type) ==
  /\ page' = [page EXCEPT !.documentType = type, !.file = 0,
                          !.extractedBudget = Null, !.extractedCTA = Null]
  /\ UNCHANGED <<library, request, response, llmCalls, now, posts, runs, files,
                 authUsers, db, reply>>

\* handleExtract to its await (lines 74-89); the button is disabled without
\* a file and while extracting
HandleExtract ==
  /\ page.file # 0 /\ ~page.extracting
  /\ page' = [page EXCEPT !.extracting = TRUE,
                          !.fetch = Extracted(page.file, page.documentType)]
  /\ UNCHANGED <<library, request, response, llmCalls, now, posts, runs, files,
                 authUsers, db, reply>>

\* handleExtract after its await (lines 91-109): the response is not ok, or
\* it carries the data, which goes to the state of the closure's type
ExtractResponse ==
  /\ page.fetch # Null
  /\ \E ok \in BOOLEAN :
       page' =
         IF ~ok THEN [page EXCEPT !.extracting = FALSE, !.fetch = Null]
         ELSE IF page.fetch.type = "budget"
           THEN [page EXCEPT !.extracting = FALSE, !.fetch = Null,
                             !.extractedBudget = page.fetch,
                             !.extractedCTA = Null]
         ELSE [page EXCEPT !.extracting = FALSE, !.fetch = Null,
                           !.extractedCTA = page.fetch,
                           !.extractedBudget = Null]
  /\ UNCHANGED <<library, request, response, llmCalls, now, posts, runs, files,
                 authUsers, db, reply>>

\* handleSave to its fetch (lines 112-131): the body of the PATCH
HandleSave ==
  /\ page.extractedBudget # Null \/ page.extractedCTA # Null
  /\ page' = [page EXCEPT !.patch =
       IF page.documentType = "budget" /\ page.extractedBudget # Null
         THEN [budget_data |-> page.extractedBudget]
       ELSE IF page.documentType = "cta" /\ page.extractedCTA # Null
         THEN [cta_data |-> page.extractedCTA]
       ELSE [none |-> TRUE]]
  /\ UNCHANGED <<library, request, response, llmCalls, now, posts, runs, files,
                 authUsers, db, reply>>

PageNext ==
  \/ \E f \in 1..MaxFiles : HandleFileChange(f)
  \/ \E type \in {"budget", "cta"} : SetDocumentType(type)
  \/ HandleExtract
  \/ ExtractResponse
  \/ HandleSave

PageSpec == Init /\ [][PageNext]_vars

\* C30: extracted data held in the page's state is the extraction of the
\* selected file under the selected document type, and a PATCH that Save
\* sent carries data extracted under the type of its key.
C30_ExtractedMatchesSelection ==
  /\ page.extractedBudget # Null =>
       page.extractedBudget = Extracted(page.file, page.documentType)
  /\ page.extractedCTA # Null =>
       page.extractedCTA = Extracted(page.file, page.documentType)
  /\ page.patch # Null =>
       \/ page.patch \in {[budget_data |-> Extracted(f, "budget")] : f \in 1..MaxFiles}
       \/ page.patch \in {[cta_data |-> Extracted(f, "cta")] : f \in 1..MaxFiles}

====
